---------------------------- MODULE Spec2Model ----------------------------
(***************************************************************************)
(* A model of the markdown converter: the sliding-window RateLimiter, the  *)
(* security helpers, FileConverter.convert and the page that wires them    *)
(* together (Home, FileUpload, MarkdownPreview, ConversionPanel).          *)
(*                                                                         *)
(* Strings are sequences of one-character strings, so that the regular     *)
(* expressions of the source are computed character by character.          *)
(* Time is the value of Date.now() in milliseconds.                        *)
(***************************************************************************)
EXTENDS Integers, Sequences, FiniteSets, TLC

VARIABLES
    \* ---- RateLimiter (src/lib/converters.ts:447-475)
    requests,       \* this.requests: timestamps of the admitted requests
    maxRequests,    \* this.maxRequests (readonly, set by the constructor)
    windowMs,       \* this.windowMs (readonly, set by the constructor)
    \* ---- environment
    now,            \* Date.now()
    \* ---- what the last limiter call did (observation of the calls)
    lastOp,         \* the operation the last step performed
    canRet,         \* the value the last canMakeRequest returned
    remRet,         \* the value the last getRemainingRequests returned
    calls,          \* log of the canMakeRequest calls: time, result and the
                    \* oldest timestamp retained when the call returned
    \* ---- a caller of FileConverter.convert
    cvCall,         \* the arguments and environment of the last convert call
    cvOut,          \* what that call returned or threw
    \* ---- the page
    home,           \* the useState values of Home
    fileUpload,     \* the useState values of FileUpload, and the file being read
    conversionState,\* the useState value of ConversionPanel
    timers,         \* the callbacks handed to setTimeout and not yet run
    panel,          \* copyStatus of ConversionPanel, the clipboard writes it
                    \* awaits, and the handler it ran last
    uploads,        \* how many files were handed to handleFileSelection
    refused,        \* the uploads the limiter refused in handleFileRead
    shown,          \* the upload whose content the page holds, and its file
    parseCalls,     \* the parse calls MarkdownPreview made in the last step
    callbacks,      \* the props FileUpload called in the last step
    convertCalls,   \* the convert calls ConversionPanel made in the last step
    \* ---- a caller of one of the pure functions
    fnCall,         \* the function called, its argument, and whether it ran
    fnRet           \* the value the function returned

rlVars == <<requests, maxRequests, windowMs>>
limiterVars == <<requests, maxRequests, windowMs, canRet, remRet, calls>>
convVars == <<cvCall, cvOut>>
fnVars == <<fnCall, fnRet>>
pageVars == <<home, fileUpload, conversionState, timers, panel>>
pageLogVars == <<uploads, refused, shown, parseCalls, callbacks,
                 convertCalls>>
vars == <<requests, maxRequests, windowMs, now, lastOp, canRet, remRet, calls,
          cvCall, cvOut, home, fileUpload, conversionState, timers, panel,
          uploads, refused, shown, parseCalls, callbacks, convertCalls,
          fnCall, fnRet>>

----------------------------------------------------------------------------
(* Bounds of the model *)

\* granularity of the clock: Date.now() advances in steps of ClockStepMs
ClockStepMs == 500
\* the clock stops after MaxClockSteps steps
MaxClockSteps == 4
\* the limiter is constructed with maxRequests in 1..MaxMaxRequests
MaxMaxRequests == 2
\* ... and with windowMs in {1..MaxWindowSteps} * ClockStepMs
MaxWindowSteps == 2
\* the filenames given to sanitizeFilename have at most MaxShortName
\* characters, or at most MaxShortName - 1 characters on either side of a
\* long run of letters
MaxShortName == 3
\* at most MaxPanelSteps clicks on the buttons of ConversionPanel in one
\* behaviour
MaxPanelSteps == 3
\* at most MaxCalls canMakeRequest calls are logged in one behaviour
MaxCalls == 4

TimePoints == {k * ClockStepMs : k \in 0..MaxClockSteps}

Max(a, b) == IF a >= b THEN a ELSE b

----------------------------------------------------------------------------
(* Strings: a string is a sequence of one-character strings *)

UpperCase ==
    <<"A", "B", "C", "D", "E", "F", "G", "H", "I", "J", "K", "L", "M",
      "N", "O", "P", "Q", "R", "S", "T", "U", "V", "W", "X", "Y", "Z">>

LowerCase ==
    <<"a", "b", "c", "d", "e", "f", "g", "h", "i", "j", "k", "l", "m",
      "n", "o", "p", "q", "r", "s", "t", "u", "v", "w", "x", "y", "z">>

Digits == {"0", "1", "2", "3", "4", "5", "6", "7", "8", "9"}

\* the character class \s of the regular expressions
Whitespace == {" ", "\t", "\n", "\r"}

\* the line terminators that ^ and $ see under the m flag
LineTerminators == {"\n", "\r"}

Range(s) == {s[i] : i \in DOMAIN s}

\* String.prototype.toLowerCase, one character
ToLowerChar(c) ==
    IF \E i \in DOMAIN UpperCase : UpperCase[i] = c
    THEN LowerCase[CHOOSE i \in DOMAIN UpperCase : UpperCase[i] = c]
    ELSE c

\* String.prototype.toLowerCase; also how the patterns with the i flag read
\* their input
ToLowerCase(s) == [i \in DOMAIN s |-> ToLowerChar(s[i])]

\* p occurs in s starting at index i
OccursAt(s, p, i) ==
    /\ i >= 1
    /\ i + Len(p) - 1 <= Len(s)
    /\ \A k \in DOMAIN p : s[i + k - 1] = p[k]

\* String.prototype.endsWith
EndsWith(s, p) == Len(p) <= Len(s) /\ OccursAt(s, p, Len(s) - Len(p) + 1)

\* /p/.test(s) for a literal pattern p
Matches(s, p) == \E i \in 1..(Len(s) + 1) : OccursAt(s, p, i)

\* /p\s*q/.test(s) for literal p and q
MatchesSpaced(s, p, q) ==
    \E i \in DOMAIN s :
        /\ OccursAt(s, p, i)
        /\ \E j \in (i + Len(p))..Len(s) :
              /\ OccursAt(s, q, j)
              /\ \A k \in (i + Len(p))..(j - 1) : s[k] \in Whitespace

\* /p[^>]*>/.test(s) for a literal p
MatchesOpenTag(s, p) ==
    \E i \in DOMAIN s :
        /\ OccursAt(s, p, i)
        /\ \E j \in (i + Len(p))..Len(s) : s[j] = ">"

\* String.prototype.trim
RECURSIVE TrimStart(_)
TrimStart(s) ==
    IF s # << >> /\ Head(s) \in Whitespace THEN TrimStart(Tail(s)) ELSE s

RECURSIVE TrimEnd(_)
TrimEnd(s) ==
    IF s # << >> /\ s[Len(s)] \in Whitespace
    THEN TrimEnd(SubSeq(s, 1, Len(s) - 1))
    ELSE s

Trim(s) == TrimEnd(TrimStart(s))

----------------------------------------------------------------------------
(* Security utilities *)

\* DEFAULT_OPTIONS of the security utilities
DefaultMaxSize == 10 * 1024 * 1024
DefaultMaxContentLength == 1024 * 1024

\* allowedExtensions
Ext_md ==
    <<".", "m", "d">>
Ext_markdown ==
    <<".", "m", "a", "r", "k", "d", "o", "w", "n">>
Ext_txt ==
    <<".", "t", "x", "t">>

DefaultAllowedExtensions == <<Ext_md, Ext_markdown, Ext_txt>>

\* the literal parts of suspiciousPatterns
Pat_script ==
    <<"<", "s", "c", "r", "i", "p", "t">>
Pat_javascript ==
    <<"j", "a", "v", "a", "s", "c", "r", "i", "p", "t", ":">>
Pat_dataTextHtml ==
    <<"d", "a", "t", "a", ":", "t", "e", "x", "t", "/", "h", "t", "m", "l">>
Pat_vbscript ==
    <<"v", "b", "s", "c", "r", "i", "p", "t", ":">>
Pat_onload ==
    <<"o", "n", "l", "o", "a", "d">>
Pat_onerror ==
    <<"o", "n", "e", "r", "r", "o", "r">>
Pat_onclick ==
    <<"o", "n", "c", "l", "i", "c", "k">>
Pat_eval ==
    <<"e", "v", "a", "l">>
Pat_documentWrite ==
    <<"d", "o", "c", "u", "m", "e", "n", "t", ".", "w", "r", "i", "t", "e">>
Pat_eq ==
    <<"=">>
Pat_paren ==
    <<"(">>

\* detectMaliciousContent(content): some suspicious pattern matches
detectMaliciousContent(content) ==
    LET c == ToLowerCase(content)
    IN  \/ MatchesOpenTag(c, Pat_script)
        \/ Matches(c, Pat_javascript)
        \/ Matches(c, Pat_dataTextHtml)
        \/ Matches(c, Pat_vbscript)
        \/ MatchesSpaced(c, Pat_onload, Pat_eq)
        \/ MatchesSpaced(c, Pat_onerror, Pat_eq)
        \/ MatchesSpaced(c, Pat_onclick, Pat_eq)
        \/ MatchesSpaced(c, Pat_eval, Pat_paren)
        \/ Matches(c, Pat_documentWrite)

\* the characters that sanitizeFilename keeps: [a-zA-Z0-9._-]
SafeFilenameChars ==
    Range(UpperCase) \cup Range(LowerCase) \cup Digits \cup {".", "_", "-"}

RECURSIVE StripLeadingDots(_)
StripLeadingDots(s) ==
    IF s # << >> /\ Head(s) = "." THEN StripLeadingDots(Tail(s)) ELSE s

RECURSIVE StripTrailingDots(_)
StripTrailingDots(s) ==
    IF s # << >> /\ s[Len(s)] = "."
    THEN StripTrailingDots(SubSeq(s, 1, Len(s) - 1))
    ELSE s

MaxFilenameLength == 255

\* String.prototype.substring(0, n)
Substring0(s, n) == IF Len(s) <= n THEN s ELSE SubSeq(s, 1, n)

\* sanitizeFilename without the substring(0, 255)
sanitizeFilenameUntruncated(filename) ==
    LET replaced == [i \in DOMAIN filename |->
                        IF filename[i] \in SafeFilenameChars
                        THEN filename[i] ELSE "_"]
    IN  StripTrailingDots(StripLeadingDots(replaced))

\* sanitizeFilename(filename)
sanitizeFilename(filename) ==
    LET replaced == [i \in DOMAIN filename |->
                        IF filename[i] \in SafeFilenameChars
                        THEN filename[i] ELSE "_"]
    IN  Substring0(StripTrailingDots(StripLeadingDots(replaced)),
                   MaxFilenameLength)

\* validateFile(file) with the default options: the FileValidationResult
validateFile(file) ==
    IF file.size > DefaultMaxSize
    THEN [isValid |-> FALSE, error |-> "File size exceeds limit of 10MB"]
    ELSE IF ~\E i \in DOMAIN DefaultAllowedExtensions :
                EndsWith(ToLowerCase(file.name), ToLowerCase(DefaultAllowedExtensions[i]))
         THEN [isValid |-> FALSE,
               error |-> "Invalid file type. Allowed: .md, .markdown, .txt"]
         ELSE [isValid |-> TRUE, error |-> ""]

\* validateContent(content, maxLength), given content.length
validateContent(length, maxLength) ==
    IF length > maxLength
    THEN [isValid |-> FALSE, error |-> "Content exceeds maximum length"]
    ELSE [isValid |-> TRUE, error |-> ""]

----------------------------------------------------------------------------
(* JavaScript values that reach the converter: a string carries its
   characters; undefined, null and a number carry none *)

JsUndefined == [kind |-> "undefined", str |-> << >>]
JsNull == [kind |-> "null", str |-> << >>]
JsNumber == [kind |-> "number", str |-> << >>]
JsString(s) == [kind |-> "string", str |-> s]

\* !v for the values above (the number is not 0)
Falsy(v) == v.kind \in {"undefined", "null"} \/ (v.kind = "string" /\ v.str = << >>)

RECURSIVE ConcatRange(_, _, _)
\* the concatenation of the strings ss[lo], ..., ss[hi]
ConcatRange(ss, lo, hi) ==
    IF lo > hi THEN << >>
    ELSE IF lo = hi THEN ss[lo]
    ELSE LET mid == (lo + hi) \div 2
         IN  ConcatRange(ss, lo, mid) \o ConcatRange(ss, mid + 1, hi)

\* the concatenation of a sequence of strings
Concat(ss) == ConcatRange(ss, 1, Len(ss))

\* Array.prototype.join
Join(ss, sep) ==
    Concat([i \in 1..(2 * Len(ss) - 1) |->
               IF i % 2 = 1 THEN ss[(i + 1) \div 2] ELSE sep])

\* the least element of a non-empty set of numbers
Least(S) == CHOOSE k \in S : \A m \in S : k <= m

\* the greatest element of a non-empty set of numbers
Greatest(S) == CHOOSE k \in S : \A m \in S : m <= k

\* the elements of s at the indices that satisfy Keep, in order
KeepIndices(s, Keep(_)) ==
    LET kept == SelectSeq([i \in DOMAIN s |-> i], Keep)
    IN  [k \in DOMAIN kept |-> s[kept[k]]]

DigitChars == <<"0", "1", "2", "3", "4", "5", "6", "7", "8", "9">>

RECURSIVE DecimalString(_)
\* a non-negative number in a template literal
DecimalString(n) ==
    IF n < 10 THEN <<DigitChars[n + 1]>>
    ELSE DecimalString(n \div 10) \o <<DigitChars[(n % 10) + 1]>>

----------------------------------------------------------------------------
(* validateFile with the options of the caller *)

\* a FileValidationOptions object merged over DEFAULT_OPTIONS
FileValidationOptions(maxSize, allowedExtensions) ==
    [maxSize |-> maxSize, allowedExtensions |-> allowedExtensions]

DefaultFileValidationOptions ==
    FileValidationOptions(DefaultMaxSize, DefaultAllowedExtensions)

\* Math.round(n / 1024 / 1024) for a size n >= 0
RoundToMB(n) == (n + 512 * 1024) \div (1024 * 1024)

Msg_sizeExceeds ==
    <<"F", "i", "l", "e", " ", "s", "i", "z", "e", " ", "e", "x", "c", "e",
      "e", "d", "s", " ", "l", "i", "m", "i", "t", " ", "o", "f", " ">>
Msg_MB ==
    <<"M", "B">>
Msg_invalidType ==
    <<"I", "n", "v", "a", "l", "i", "d", " ", "f", "i", "l", "e", " ", "t",
      "y", "p", "e", ".", " ", "A", "l", "l", "o", "w", "e", "d", ":", " ">>
Msg_commaSpace ==
    <<",", " ">>

\* fileName.endsWith(ext.toLowerCase()) for some allowed extension
hasValidExtension(name, allowedExtensions) ==
    \E i \in DOMAIN allowedExtensions :
        EndsWith(ToLowerCase(name), ToLowerCase(allowedExtensions[i]))

SizeError(opts) ==
    [isValid |-> FALSE,
     error |-> Msg_sizeExceeds \o DecimalString(RoundToMB(opts.maxSize))
                   \o Msg_MB]

TypeError(opts) ==
    [isValid |-> FALSE,
     error |-> Msg_invalidType \o Join(opts.allowedExtensions, Msg_commaSpace)]

\* { isValid: true }: no error property
ValidFile == [isValid |-> TRUE, error |-> << >>]

\* validateFile with the size limit made inclusive
validateFileSizeInclusive(file, opts) ==
    IF file.size >= opts.maxSize
    THEN SizeError(opts)
    ELSE IF ~hasValidExtension(file.name, opts.allowedExtensions)
         THEN TypeError(opts)
         ELSE ValidFile

\* validateFile with the extension checked before the size
validateFileTypeFirst(file, opts) ==
    IF ~hasValidExtension(file.name, opts.allowedExtensions)
    THEN TypeError(opts)
    ELSE IF file.size > opts.maxSize
         THEN SizeError(opts)
         ELSE ValidFile

\* validateFile(file, options): the FileValidationResult
validateFileWith(file, opts) ==
    IF file.size > opts.maxSize
    THEN SizeError(opts)
    ELSE IF ~hasValidExtension(file.name, opts.allowedExtensions)
         THEN TypeError(opts)
         ELSE ValidFile

----------------------------------------------------------------------------
(* Long texts *)

\* a run of LetterRunLength plain letters, kept as one element of a string
LetterRun == "x...x"
LetterRunLength == DefaultMaxContentLength

\* String.prototype.length
JsLength(s) ==
    Len(s) + (LetterRunLength - 1) * Cardinality({i \in DOMAIN s : s[i] = LetterRun})

----------------------------------------------------------------------------
(* The markdown sources of the model *)

Text_plain ==
    <<"H", "i">>

\* the malicious source of the spec's testable property
Text_onclick ==
    <<"c", "l", "i", "c", "k", " ", "<", "a", " ", "o", "n", "c", "l", "i",
      "c", "k", "=", "\"", "e", "v", "i", "l", "(", ")", "\"", ">", "h",
      "e", "r", "e", "<", "/", "a", ">">>

Text_script ==
    <<"<", "s", "c", "r", "i", "p", "t", ">", "a", "l", "e", "r", "t", "(",
      "1", ")", "<", "/", "s", "c", "r", "i", "p", "t", ">">>

\* a paragraph longer than maxContentLength
Text_big == <<"H", "i", " ", LetterRun>>

Text_empty == << >>

SampleTexts == {Text_plain, Text_onclick, Text_script, Text_big, Text_empty}

\* the character U+2022, one element of a string
Bullet == "U+2022"

\* the character U+0060 (the code fence), one element of a string
Backtick == "U+0060"

\* two paragraphs separated by a blank line
Text_paragraphs ==
    <<"H", "i", "\n", "\n", "H", "i">>

\* a thematic break
Text_rule ==
    <<"-", "-", "-">>

Url_http ==
    <<"h", "t", "t", "p", ":", "/", "/", "a", ".", "i", "o", "/", "x">>

\* an image
Text_image ==
    <<"!", "[", "H", "i", "]", "(">> \o Url_http \o <<")">>

\* a heading, a list of two items and a js fenced code block, separated by
\* blank lines; the second line of the code is indented, the third is blank
Text_doc ==
    <<"#", " ", "T", "i", "t", "l", "e", "\n", "\n", "-", " ", "a", "\n",
      "-", " ", "b", "\n", "\n", Backtick, Backtick, Backtick, "j", "s", "\n", "i", "f",
      " ", "x", ":", "\n", " ", " ", "y", "\n", "\n", "z", "\n", Backtick, Backtick,
      Backtick>>

\* the sources given to the parser on its own
ParserTexts ==
    SampleTexts \cup {Text_paragraphs, Text_rule, Text_image, Text_doc}

----------------------------------------------------------------------------
(* The renderer of MarkdownParser: links and images *)

\* the index of the first character of s from position lo on that is in
\* the set cs; Len(s) + 1 when there is none
FirstIn(s, cs, lo) ==
    Least({i \in lo..Len(s) : s[i] \in cs} \cup {Len(s) + 1})

\* the index of the last character of s that is in cs; 0 when none
LastIn(s, cs) == Greatest({i \in DOMAIN s : s[i] \in cs} \cup {0})

AsciiAlpha == Range(UpperCase) \cup Range(LowerCase)

\* the characters of a URL scheme after its first letter
SchemeChars == AsciiAlpha \cup Digits \cup {"+", "-", "."}

\* the schemes whose URLs need a host
HostSchemes ==
    {<<"h", "t", "t", "p">>, <<"h", "t", "t", "p", "s">>, <<"f", "t", "p">>,
     <<"w", "s">>, <<"w", "s", "s">>}

\* the characters a host may not hold
ForbiddenHostChars ==
    {" ", "#", "/", ":", "<", ">", "?", "@", "[", "\\", "]", "^", "|"}

\* new URL(url) without a base, by the steps of the URL parser that the
\* URLs of the model exercise: leading and trailing white space and inner
\* tabs and newlines are dropped; the input must start with a scheme and a
\* colon; a URL of a scheme in HostSchemes needs a host without forbidden
\* characters and a numeric port.  ok is false when the constructor throws;
\* protocol is parsed.protocol
parseUrl(url) ==
    LET input == SelectSeq(Trim(url), LAMBDA c : c \notin {"\t", "\n", "\r"})
        colon == FirstIn(input, {":"}, 1)
        hasScheme ==
            /\ colon <= Len(input)
            /\ colon > 1
            /\ input[1] \in AsciiAlpha
            /\ \A i \in 2..(colon - 1) : input[i] \in SchemeChars
        scheme == ToLowerCase(SubSeq(input, 1, colon - 1))
        afterScheme == SubSeq(input, colon + 1, Len(input))
        start == Least({i \in DOMAIN afterScheme :
                            afterScheme[i] \notin {"/", "\\"}}
                       \cup {Len(afterScheme) + 1})
        stop == FirstIn(afterScheme, {"/", "\\", "?", "#"}, start)
        authority == SubSeq(afterScheme, start, stop - 1)
        hostPort == SubSeq(authority, LastIn(authority, {"@"}) + 1,
                           Len(authority))
        portColon == LastIn(hostPort, {":"})
        host == IF portColon = 0 THEN hostPort
                ELSE SubSeq(hostPort, 1, portColon - 1)
        port == IF portColon = 0 THEN << >>
                ELSE SubSeq(hostPort, portColon + 1, Len(hostPort))
        hostOk ==
            /\ host # << >>
            /\ \A i \in DOMAIN host : host[i] \notin ForbiddenHostChars
            /\ \A i \in DOMAIN port : port[i] \in Digits
    IN  IF ~hasScheme THEN [ok |-> FALSE, protocol |-> << >>]
        ELSE IF scheme \in HostSchemes /\ ~hostOk
             THEN [ok |-> FALSE, protocol |-> << >>]
             ELSE [ok |-> TRUE, protocol |-> scheme \o <<":">>]

\* safeProtocols
SafeProtocols ==
    {<<"h", "t", "t", "p", ":">>, <<"h", "t", "t", "p", "s", ":">>,
     <<"m", "a", "i", "l", "t", "o", ":">>}

\* the neutral placeholder
UrlPlaceholder == <<"#">>

\* MarkdownParser.sanitizeUrl(url)
sanitizeUrl(url) ==
    LET parsed == parseUrl(url)
    IN  IF parsed.ok /\ parsed.protocol \in SafeProtocols
        THEN url
        ELSE UrlPlaceholder

\* escapeMap
escapeMap(char) ==
    CASE char = "&" -> <<"&", "a", "m", "p", ";">>
      [] char = "<" -> <<"&", "l", "t", ";">>
      [] char = ">" -> <<"&", "g", "t", ";">>
      [] char = "\"" -> <<"&", "q", "u", "o", "t", ";">>
      [] char = "'" -> <<"&", "#", "3", "9", ";">>
      [] OTHER -> <<char>>

\* MarkdownParser.escapeHtml(text)
escapeHtml(text) == Concat([i \in DOMAIN text |-> escapeMap(text[i])])

Tpl_aHref ==
    <<"<", "a", " ", "h", "r", "e", "f", "=", "\"">>
Tpl_aTarget ==
    <<"\"", " ", "t", "a", "r", "g", "e", "t", "=", "\"", "_", "b", "l",
      "a", "n", "k", "\"", " ", "r", "e", "l", "=", "\"", "n", "o", "o",
      "p", "e", "n", "e", "r", " ", "n", "o", "r", "e", "f", "e", "r", "r",
      "e", "r", "\"">>
Tpl_title ==
    <<" ", "t", "i", "t", "l", "e", "=", "\"">>
Tpl_quote ==
    <<"\"">>
Tpl_gt ==
    <<">">>
Tpl_aClose ==
    <<"<", "/", "a", ">">>
Tpl_imgSrc ==
    <<"<", "i", "m", "g", " ", "s", "r", "c", "=", "\"">>
Tpl_alt ==
    <<" ", "a", "l", "t", "=", "\"">>
Tpl_loading ==
    <<" ", "l", "o", "a", "d", "i", "n", "g", "=", "\"", "l", "a", "z",
      "y", "\"", ">">>

\* titleAttr
titleAttr(title) ==
    IF Falsy(title) THEN << >>
    ELSE Tpl_title \o escapeHtml(title.str) \o Tpl_quote

\* renderer.link(href, title, text)
renderer_link(href, title, text) ==
    Tpl_aHref \o sanitizeUrl(href) \o Tpl_aTarget \o titleAttr(title)
        \o Tpl_gt \o text \o Tpl_aClose

\* renderer.image(href, title, text)
renderer_image(href, title, text) ==
    Tpl_imgSrc \o sanitizeUrl(href) \o Tpl_quote
        \o Tpl_alt \o escapeHtml(text) \o Tpl_quote
        \o titleAttr(title) \o Tpl_loading

----------------------------------------------------------------------------
(* MarkdownParser *)

\* a marked.Token, with the fields the parser reads
Token(type, text, raw) ==
    [type |-> type, depth |-> 0, text |-> text, ordered |-> FALSE,
     items |-> << >>, lang |-> << >>, raw |-> raw]

\* the raw text of a space token: the blank line between two blocks
BlankLine == <<"\n", "\n">>

\* the tokens of Text_doc: a heading takes the blank line after it into its
\* raw text, a list does not, so a space token follows the list
Tokens_doc ==
    <<[Token("heading", <<"T", "i", "t", "l", "e">>,
             <<"#", " ", "T", "i", "t", "l", "e", "\n", "\n">>)
          EXCEPT !.depth = 1],
      [Token("list", << >>, <<"-", " ", "a", "\n", "-", " ", "b">>)
          EXCEPT !.items = <<[text |-> <<"a">>], [text |-> <<"b">>]>>],
      Token("space", << >>, BlankLine),
      [Token("code",
             <<"i", "f", " ", "x", ":", "\n", " ", " ", "y", "\n", "\n",
               "z">>,
             <<Backtick, Backtick, Backtick, "j", "s", "\n", "i", "f", " ",
               "x", ":", "\n", " ", " ", "y", "\n", "\n", "z", "\n",
               Backtick, Backtick, Backtick>>)
          EXCEPT !.lang = <<"j", "s">>]>>

\* marked.lexer(markdown) on the sources of the model: a paragraph is one
\* paragraph token, a block of raw HTML one html token, and the blank line
\* that is left after a paragraph or a list is a space token
markedLexer(markdown) ==
    CASE markdown = Text_empty -> << >>
      [] markdown = Text_plain -> <<Token("paragraph", Text_plain, Text_plain)>>
      [] markdown = Text_onclick -> <<Token("paragraph", Text_onclick, Text_onclick)>>
      [] markdown = Text_big -> <<Token("paragraph", Text_big, Text_big)>>
      [] markdown = Text_script -> <<Token("html", Text_script, Text_script)>>
      [] markdown = Text_paragraphs ->
             <<Token("paragraph", Text_plain, Text_plain),
               Token("space", << >>, BlankLine),
               Token("paragraph", Text_plain, Text_plain)>>
      [] markdown = Text_rule -> <<Token("hr", << >>, Text_rule)>>
      [] markdown = Text_image -> <<Token("paragraph", Text_image, Text_image)>>
      [] markdown = Text_doc -> Tokens_doc

\* the markup marked renders for the sources of the model
Html_plain ==
    <<"<", "p", ">", "H", "i", "<", "/", "p", ">", "\n">>
Html_onclick ==
    <<"<", "p", ">", "c", "l", "i", "c", "k", " ", "h", "e", "r", "e", "<",
      "/", "p", ">", "\n">>
Html_big == <<"<", "p", ">", "H", "i", " ", LetterRun, "<", "/", "p", ">", "\n">>

Html_paragraphs ==
    <<"<", "p", ">", "H", "i", "<", "/", "p", ">", "\n", "<", "p", ">",
      "H", "i", "<", "/", "p", ">", "\n">>
Html_rule ==
    <<"<", "h", "r", ">", "\n">>
Html_image ==
    <<"<", "p", ">", "<", "i", "m", "g", " ", "s", "r", "c", "=", "\"",
      "h", "t", "t", "p", ":", "/", "/", "a", ".", "i", "o", "/", "x",
      "\"", " ", "a", "l", "t", "=", "\"", "H", "i", "\"", " ", "l", "o",
      "a", "d", "i", "n", "g", "=", "\"", "l", "a", "z", "y", "\"", ">",
      "<", "/", "p", ">", "\n">>
Html_doc ==
    <<"<", "h", "1", " ", "i", "d", "=", "\"", "t", "i", "t", "l", "e",
      "\"", ">", "T", "i", "t", "l", "e", "<", "/", "h", "1", ">", "\n",
      "<", "u", "l", ">", "\n", "<", "l", "i", ">", "a", "<", "/", "l",
      "i", ">", "\n", "<", "l", "i", ">", "b", "<", "/", "l", "i", ">",
      "\n", "<", "/", "u", "l", ">", "\n", "<", "p", "r", "e", ">", "<",
      "c", "o", "d", "e", " ", "c", "l", "a", "s", "s", "=", "\"", "l",
      "a", "n", "g", "u", "a", "g", "e", "-", "j", "s", "\"", ">", "i",
      "f", " ", "x", ":", "\n", " ", " ", "y", "\n", "\n", "z", "\n", "<",
      "/", "c", "o", "d", "e", ">", "<", "/", "p", "r", "e", ">", "\n">>

\* marked.parser(tokens) with the configured renderer on the sources of the
\* model: renderer.html returns '' (allowHtml is false), so raw HTML, block
\* or inline, renders as nothing
markedParser(tokens) ==
    CASE tokens = << >> -> << >>
      [] tokens = <<Token("paragraph", Text_plain, Text_plain)>> -> Html_plain
      [] tokens = <<Token("paragraph", Text_onclick, Text_onclick)>> -> Html_onclick
      [] tokens = <<Token("paragraph", Text_big, Text_big)>> -> Html_big
      [] tokens = <<Token("html", Text_script, Text_script)>> -> << >>
      [] tokens = markedLexer(Text_paragraphs) -> Html_paragraphs
      [] tokens = markedLexer(Text_rule) -> Html_rule
      [] tokens = markedLexer(Text_image) -> Html_image
      [] tokens = Tokens_doc -> Html_doc

\* tokenToPlainText(token)
tokenToPlainText(token) ==
    CASE token.type = "heading" ->
             [i \in 1..token.depth |-> "#"] \o <<" ">> \o token.text
      [] token.type = "paragraph" -> token.text
      [] token.type = "list" ->
             Join([i \in DOMAIN token.items |->
                      (IF token.ordered
                       THEN DecimalString(i) \o <<".">>
                       ELSE <<Bullet>>) \o <<" ">> \o token.items[i].text],
                  <<"\n">>)
      [] token.type = "code" ->
             <<Backtick, Backtick, Backtick>> \o token.lang \o <<"\n">> \o token.text
                 \o <<"\n", Backtick, Backtick, Backtick>>
      [] token.type = "blockquote" -> <<">", " ">> \o token.text
      [] token.type = "hr" -> <<"-", "-", "-">>
      [] OTHER -> token.raw

\* toPlainText(tokens)
toPlainText(tokens) ==
    Join([i \in DOMAIN tokens |-> tokenToPlainText(tokens[i])], <<"\n", "\n">>)

\* the tags DOMPurify.sanitize is configured to keep
AllowedTags ==
    {<<"h", "1">>, <<"h", "2">>, <<"h", "3">>, <<"h", "4">>, <<"h", "5">>,
     <<"h", "6">>, <<"p">>, <<"b", "r">>, <<"s", "t", "r", "o", "n", "g">>,
     <<"e", "m">>, <<"u">>, <<"s">>, <<"u", "l">>, <<"o", "l">>,
     <<"l", "i">>, <<"b", "l", "o", "c", "k", "q", "u", "o", "t", "e">>,
     <<"c", "o", "d", "e">>, <<"p", "r", "e">>, <<"a">>, <<"i", "m", "g">>,
     <<"t", "a", "b", "l", "e">>, <<"t", "h", "e", "a", "d">>,
     <<"t", "b", "o", "d", "y">>, <<"t", "r">>, <<"t", "d">>, <<"t", "h">>}

\* ALLOWED_ATTR
AllowedAttributes ==
    {<<"h", "r", "e", "f">>, <<"s", "r", "c">>, <<"a", "l", "t">>,
     <<"t", "i", "t", "l", "e">>, <<"t", "a", "r", "g", "e", "t">>,
     <<"r", "e", "l">>}

Clean_image ==
    <<"<", "p", ">", "<", "i", "m", "g", " ", "s", "r", "c", "=", "\"",
      "h", "t", "t", "p", ":", "/", "/", "a", ".", "i", "o", "/", "x",
      "\"", " ", "a", "l", "t", "=", "\"", "H", "i", "\"", ">", "<", "/",
      "p", ">", "\n">>
Clean_doc ==
    <<"<", "h", "1", ">", "T", "i", "t", "l", "e", "<", "/", "h", "1", ">",
      "\n", "<", "u", "l", ">", "\n", "<", "l", "i", ">", "a", "<", "/",
      "l", "i", ">", "\n", "<", "l", "i", ">", "b", "<", "/", "l", "i",
      ">", "\n", "<", "/", "u", "l", ">", "\n", "<", "p", "r", "e", ">",
      "<", "c", "o", "d", "e", ">", "i", "f", " ", "x", ":", "\n", " ",
      " ", "y", "\n", "\n", "z", "\n", "<", "/", "c", "o", "d", "e", ">",
      "<", "/", "p", "r", "e", ">", "\n">>

\* DOMPurify.sanitize on the markup of the model: p elements without
\* attributes are kept as they are; the hr element, which is not in the
\* allow-list, is dropped; the attributes loading, id and class, which are
\* not in ALLOWED_ATTR, are dropped from the elements that carry them
domPurifySanitize(html) ==
    CASE html \in {<< >>, Html_plain, Html_onclick, Html_big, Html_paragraphs}
             /\ <<"p">> \in AllowedTags -> html
      [] html = Html_rule -> <<"\n">>
      [] html = Html_image -> Clean_image
      [] html = Html_doc -> Clean_doc

\* MarkdownParser.parse(markdown): what it returns or throws; hasWindow is
\* typeof window !== 'undefined'
parse(markdown, hasWindow) ==
    IF markdown.kind # "string"
    THEN [kind |-> "throw", error |-> "TypeError", html |-> << >>,
          tokens |-> << >>, plainText |-> << >>]
    ELSE LET tokens == markedLexer(markdown.str)
             html == markedParser(tokens)
         IN  [kind |-> "return", error |-> "",
              html |-> IF hasWindow THEN domPurifySanitize(html) ELSE html,
              tokens |-> tokens,
              plainText |-> toPlainText(tokens)]

----------------------------------------------------------------------------
(* FileConverter *)

DotHtml ==
    <<".", "h", "t", "m", "l">>
DotJson ==
    <<".", "j", "s", "o", "n">>
DotTxt ==
    <<".", "t", "x", "t">>
ConvertedPrefix ==
    <<"c", "o", "n", "v", "e", "r", "t", "e", "d", "_">>

\* new Date().toISOString() and new Date().toLocaleString() at time t
toISOString(t) == <<"T">> \o DecimalString(t) \o <<"Z">>
toLocaleString(t) == DecimalString(t \div 1000)

\* originalFilename.replace(/\.[^/.]+$/, ''): the last extension removed
StripExtension(name) ==
    IF \E i \in DOMAIN name :
          /\ name[i] = "."
          /\ i < Len(name)
          /\ \A k \in (i + 1)..Len(name) : name[k] \notin {"/", "."}
    THEN LET i == CHOOSE j \in DOMAIN name :
                     /\ name[j] = "."
                     /\ j < Len(name)
                     /\ \A k \in (j + 1)..Len(name) : name[k] \notin {"/", "."}
         IN  SubSeq(name, 1, i - 1)
    ELSE name

\* a getBaseFilename that returns the empty name it is left with
getBaseFilenameNoFallback(originalFilename, t) ==
    IF Falsy(originalFilename)
    THEN [kind |-> "return", value |-> << >>, error |-> ""]
    ELSE IF originalFilename.kind # "string"
    THEN [kind |-> "throw", value |-> << >>, error |-> "TypeError"]
    ELSE [kind |-> "return", error |-> "",
          value |-> sanitizeFilename(StripExtension(originalFilename.str))]

\* getBaseFilename(originalFilename) at time t: what it returns or throws
\* (a value that is not a string has no replace method)
getBaseFilename(originalFilename, t) ==
    IF Falsy(originalFilename)
    THEN [kind |-> "return", error |-> "",
          value |-> ConvertedPrefix \o DecimalString(t)]
    ELSE IF originalFilename.kind # "string"
    THEN [kind |-> "throw", value |-> << >>, error |-> "TypeError"]
    ELSE LET sanitized == sanitizeFilename(StripExtension(originalFilename.str))
         IN  [kind |-> "return", error |-> "",
              value |-> IF sanitized # << >> THEN sanitized
                        ELSE ConvertedPrefix \o DecimalString(t)]

Meta_generator ==
    <<"\n", " ", " ", " ", " ", "<", "m", "e", "t", "a", " ", "n", "a",
      "m", "e", "=", "\"", "g", "e", "n", "e", "r", "a", "t", "o", "r",
      "\"", " ", "c", "o", "n", "t", "e", "n", "t", "=", "\"", "M", "a",
      "r", "k", "d", "o", "w", "n", " ", "C", "o", "n", "v", "e", "r", "t",
      "e", "r", "\"", ">", "\n", " ", " ", " ", " ", "<", "m", "e", "t",
      "a", " ", "n", "a", "m", "e", "=", "\"", "c", "o", "n", "v", "e",
      "r", "t", "e", "d", "-", "a", "t", "\"", " ", "c", "o", "n", "t",
      "e", "n", "t", "=", "\"">>
Meta_format ==
    <<"\"", ">", "\n", " ", " ", " ", " ", "<", "m", "e", "t", "a", " ",
      "n", "a", "m", "e", "=", "\"", "f", "o", "r", "m", "a", "t", "\"",
      " ", "c", "o", "n", "t", "e", "n", "t", "=", "\"", "h", "t", "m",
      "l", "\"", ">">>

\* generateMetadata() at time t
generateMetadata(t) == Meta_generator \o toISOString(t) \o Meta_format

\* getHTMLStyles(): the style sheet, its first rule standing for all of
\* them (no rule holds a tag)
getHTMLStyles ==
    <<"\n", " ", " ", " ", " ", " ", " ", "b", "o", "d", "y", " ", "{",
      "\n", " ", " ", " ", " ", " ", " ", " ", " ", "l", "i", "n", "e",
      "-", "h", "e", "i", "g", "h", "t", ":", " ", "1", ".", "6", ";",
      "\n", " ", " ", " ", " ", " ", " ", "}", "\n", " ", " ", " ", " ",
      " ", " ", "\n", " ", " ", " ", " ", " ", " ", ".", "m", "a", "r",
      "k", "d", "o", "w", "n", "-", "c", "o", "n", "t", "e", "n", "t", " ",
      "{", "\n", " ", " ", " ", " ", " ", " ", " ", " ", "f", "o", "n",
      "t", "-", "s", "i", "z", "e", ":", " ", "1", "6", "p", "x", ";",
      "\n", " ", " ", " ", " ", " ", " ", "}", "\n", " ", " ", " ", " ">>

\* .replace(/></g, '>\n<')
BreakBetweenTags(s) ==
    Concat([i \in DOMAIN s |->
               IF i < Len(s) /\ s[i] = ">" /\ s[i + 1] = "<"
               THEN <<">", "\n">>
               ELSE <<s[i]>>])

\* the last index of the run of whitespace that starts at i
RECURSIVE RunEnd(_, _)
RunEnd(s, i) ==
    IF i < Len(s) /\ s[i + 1] \in Whitespace THEN RunEnd(s, i + 1) ELSE i

\* the indices that the matches of /^\s+|\s+$/gm remove from the whitespace
\* i..b, the search standing at i: at a line start ^\s+ takes all of it;
\* elsewhere \s+$ takes the longest part that ends where $ matches (before a
\* line terminator or at the end of the input), and with no such part the
\* search moves on by one character
RECURSIVE EdgeMatches(_, _, _)
EdgeMatches(s, i, b) ==
    IF i > b THEN {}
    ELSE IF i = 1 \/ s[i - 1] \in LineTerminators THEN i..b
    ELSE LET ends == {k \in (i + 1)..(b + 1) :
                         k = Len(s) + 1 \/ s[k] \in LineTerminators}
         IN  IF ends = {} THEN EdgeMatches(s, i + 1, b)
             ELSE (i..(Greatest(ends) - 1)) \cup EdgeMatches(s, Greatest(ends), b)

\* .replace(/^\s+|\s+$/gm, ''): a match lies inside one run of whitespace,
\* so the runs are searched one by one
StripLineEdges(s) ==
    LET starts == {i \in DOMAIN s :
                      s[i] \in Whitespace /\ (i = 1 \/ s[i - 1] \notin Whitespace)}
        removed == UNION {EdgeMatches(s, a, RunEnd(s, a)) : a \in starts}
    IN  KeepIndices(s, LAMBDA i : i \notin removed)

\* .split('\n')
SplitLines(s) ==
    LET breaks == {i \in DOMAIN s : s[i] = "\n"}
        from == {1} \cup {i + 1 : i \in breaks}
        ordered == SelectSeq([i \in 1..(Len(s) + 1) |-> i], LAMBDA i : i \in from)
    IN  [k \in DOMAIN ordered |->
            SubSeq(s, ordered[k],
                   IF k = Len(ordered) THEN Len(s) ELSE ordered[k + 1] - 2)]

\* prettifyHTML(html)
prettifyHTML(html) ==
    LET lines == SplitLines(StripLineEdges(BreakBetweenTags(html)))
        trimmed == [i \in DOMAIN lines |-> Trim(lines[i])]
    IN  Join(SelectSeq(trimmed, LAMBDA line : Len(line) > 0), <<"\n">>)

\* the pieces of the template literal of convertToHTML
Shell_open ==
    <<"<", "!", "D", "O", "C", "T", "Y", "P", "E", " ", "h", "t", "m", "l",
      ">", "\n", "<", "h", "t", "m", "l", " ", "l", "a", "n", "g", "=",
      "\"", "e", "n", "\"", ">", "\n", "<", "h", "e", "a", "d", ">", "\n",
      " ", " ", " ", " ", "<", "m", "e", "t", "a", " ", "c", "h", "a", "r",
      "s", "e", "t", "=", "\"", "U", "T", "F", "-", "8", "\"", ">", "\n",
      " ", " ", " ", " ", "<", "m", "e", "t", "a", " ", "n", "a", "m", "e",
      "=", "\"", "v", "i", "e", "w", "p", "o", "r", "t", "\"", " ", "c",
      "o", "n", "t", "e", "n", "t", "=", "\"", "w", "i", "d", "t", "h",
      "=", "d", "e", "v", "i", "c", "e", "-", "w", "i", "d", "t", "h", ",",
      " ", "i", "n", "i", "t", "i", "a", "l", "-", "s", "c", "a", "l", "e",
      "=", "1", ".", "0", "\"", ">", "\n", " ", " ", " ", " ", "<", "t",
      "i", "t", "l", "e", ">">>
Shell_afterTitle ==
    <<"<", "/", "t", "i", "t", "l", "e", ">", "\n", " ", " ", " ", " ",
      "<", "s", "t", "y", "l", "e", ">">>
Shell_afterStyle ==
    <<"<", "/", "s", "t", "y", "l", "e", ">", "\n", " ", " ", " ", " ">>
Shell_body ==
    <<"\n", "<", "/", "h", "e", "a", "d", ">", "\n", "<", "b", "o", "d",
      "y", ">", "\n", " ", " ", " ", " ", "<", "a", "r", "t", "i", "c",
      "l", "e", " ", "c", "l", "a", "s", "s", "=", "\"", "m", "a", "r",
      "k", "d", "o", "w", "n", "-", "c", "o", "n", "t", "e", "n", "t",
      "\"", ">", "\n", " ", " ", " ", " ", " ", " ", " ", " ">>
Shell_close ==
    <<"\n", " ", " ", " ", " ", "<", "/", "a", "r", "t", "i", "c", "l",
      "e", ">", "\n", "<", "/", "b", "o", "d", "y", ">", "\n", "<", "/",
      "h", "t", "m", "l", ">">>

\* a successful ConversionResult
Success(content, filename, mimeType) ==
    [content |-> content, filename |-> filename, mimeType |-> mimeType,
     success |-> TRUE, error |-> JsUndefined]

\* convertToHTML(parsed, baseFilename, options) at time t
convertToHTML(parsed, baseFilename, options, t) ==
    LET metadata == IF options.includeMetadata THEN generateMetadata(t) ELSE << >>
        htmlContent == Shell_open \o baseFilename \o Shell_afterTitle
                       \o getHTMLStyles \o Shell_afterStyle \o metadata
                       \o Shell_body \o parsed.html \o Shell_close
    IN  Success(IF options.prettify THEN prettifyHTML(htmlContent) ELSE htmlContent,
                baseFilename \o DotHtml, <<"text/html">>)

Txt_File ==
    <<"F", "i", "l", "e", ":", " ">>
Txt_Converted ==
    <<"C", "o", "n", "v", "e", "r", "t", "e", "d", ":", " ">>
Txt_Format ==
    <<"F", "o", "r", "m", "a", "t", ":", " ", "P", "l", "a", "i", "n", " ",
      "T", "e", "x", "t">>

\* a convertToPlainText that names its result after the original extension
convertToPlainTextKeepingName(parsed, baseFilename, options, t) ==
    Success(parsed.plainText, baseFilename \o Ext_md, <<"text/markdown">>)

\* convertToPlainText(parsed, baseFilename, options) at time t
convertToPlainText(parsed, baseFilename, options, t) ==
    LET metadata == Join(<<Txt_File \o baseFilename,
                           Txt_Converted \o toLocaleString(t),
                           Txt_Format,
                           [i \in 1..50 |-> "="],
                           << >> >>, <<"\n">>)
    IN  Success(IF options.includeMetadata
                THEN metadata \o parsed.plainText
                ELSE parsed.plainText,
                baseFilename \o DotTxt, <<"text/plain">>)

----------------------------------------------------------------------------
(* JSON: a value is a string, an array or an object with ordered keys *)

JStr(s) == [t |-> "s", s |-> s]
JLit(s) == [t |-> "l", s |-> s]
JArr(items) == [t |-> "a", e |-> items]
JObj(entries) == [t |-> "o", e |-> entries]
KV(k, v) == [k |-> k, v |-> v]

K_metadata ==
    <<"m", "e", "t", "a", "d", "a", "t", "a">>
K_filename ==
    <<"f", "i", "l", "e", "n", "a", "m", "e">>
K_convertedAt ==
    <<"c", "o", "n", "v", "e", "r", "t", "e", "d", "A", "t">>
K_format ==
    <<"f", "o", "r", "m", "a", "t">>
K_generator ==
    <<"g", "e", "n", "e", "r", "a", "t", "o", "r">>
K_version ==
    <<"v", "e", "r", "s", "i", "o", "n">>
K_content ==
    <<"c", "o", "n", "t", "e", "n", "t">>
K_structure ==
    <<"s", "t", "r", "u", "c", "t", "u", "r", "e">>
K_html ==
    <<"h", "t", "m", "l">>
K_plainText ==
    <<"p", "l", "a", "i", "n", "T", "e", "x", "t">>
K_type ==
    <<"t", "y", "p", "e">>
K_children ==
    <<"c", "h", "i", "l", "d", "r", "e", "n">>
K_level ==
    <<"l", "e", "v", "e", "l">>
K_text ==
    <<"t", "e", "x", "t">>
K_ordered ==
    <<"o", "r", "d", "e", "r", "e", "d">>
K_items ==
    <<"i", "t", "e", "m", "s">>
K_language ==
    <<"l", "a", "n", "g", "u", "a", "g", "e">>
K_code ==
    <<"c", "o", "d", "e">>
K_raw ==
    <<"r", "a", "w">>
V_json ==
    <<"j", "s", "o", "n">>
V_generatorName ==
    <<"M", "a", "r", "k", "d", "o", "w", "n", " ", "C", "o", "n", "v", "e",
      "r", "t", "e", "r">>
V_versionNumber ==
    <<"1", ".", "0", ".", "0">>
V_document ==
    <<"d", "o", "c", "u", "m", "e", "n", "t">>
V_list_item ==
    <<"l", "i", "s", "t", "_", "i", "t", "e", "m">>
V_true ==
    <<"t", "r", "u", "e">>
V_false ==
    <<"f", "a", "l", "s", "e">>
V_textLang ==
    <<"t", "e", "x", "t">>

\* the escapes JSON.stringify applies inside a string
JsonEscape(s) ==
    Concat([i \in DOMAIN s |->
               CASE s[i] = "\"" -> <<"\\", "\"">>
                 [] s[i] = "\\" -> <<"\\", "\\">>
                 [] s[i] = "\n" -> <<"\\", "n">>
                 [] s[i] = "\t" -> <<"\\", "t">>
                 [] s[i] = "\r" -> <<"\\", "r">>
                 [] OTHER -> <<s[i]>>])

JsonQuote(s) == <<"\"">> \o JsonEscape(s) \o <<"\"">>

\* the line break and indentation before an item at a nesting level
JsonBreak(indent, level) ==
    IF indent = 0 THEN << >> ELSE <<"\n">> \o [i \in 1..(indent * level) |-> " "]

\* JSON.stringify(value, null, indent); indent 0 is the compact form
RECURSIVE JsonStringify(_, _, _)
JsonStringify(v, indent, level) ==
    CASE v.t = "s" -> JsonQuote(v.s)
      [] v.t = "l" -> v.s
      [] v.t = "a" ->
            IF v.e = << >> THEN <<"[", "]">>
            ELSE <<"[">>
                 \o Join([i \in DOMAIN v.e |->
                             JsonBreak(indent, level + 1)
                             \o JsonStringify(v.e[i], indent, level + 1)], <<",">>)
                 \o JsonBreak(indent, level) \o <<"]">>
      [] v.t = "o" ->
            IF v.e = << >> THEN <<"{", "}">>
            ELSE <<"{">>
                 \o Join([i \in DOMAIN v.e |->
                             JsonBreak(indent, level + 1)
                             \o JsonQuote(v.e[i].k)
                             \o (IF indent = 0 THEN <<":">> ELSE <<":", " ">>)
                             \o JsonStringify(v.e[i].v, indent, level + 1)], <<",">>)
                 \o JsonBreak(indent, level) \o <<"}">>

JBool(b) == JLit(IF b THEN V_true ELSE V_false)

\* tokenToJSON(token)
tokenToJSON(token) ==
    LET base == KV(K_type, JStr(<<token.type>>))
    IN  CASE token.type = "heading" ->
                JObj(<<base, KV(K_level, JLit(DecimalString(token.depth))),
                       KV(K_text, JStr(token.text))>>)
          [] token.type = "paragraph" ->
                JObj(<<base, KV(K_text, JStr(token.text))>>)
          [] token.type = "list" ->
                JObj(<<base, KV(K_ordered, JBool(token.ordered)),
                       KV(K_items,
                          JArr([i \in DOMAIN token.items |->
                                   JObj(<<KV(K_type, JStr(V_list_item)),
                                          KV(K_text, JStr(token.items[i].text))>>)]))>>)
          [] token.type = "code" ->
                JObj(<<base,
                       KV(K_language,
                          JStr(IF token.lang # << >> THEN token.lang ELSE V_textLang)),
                       KV(K_code, JStr(token.text))>>)
          [] token.type = "blockquote" ->
                JObj(<<base, KV(K_text, JStr(token.text))>>)
          [] OTHER -> JObj(<<base, KV(K_raw, JStr(token.raw))>>)

\* MarkdownParser.toJSON(tokens)
toJSON(tokens) ==
    JObj(<<KV(K_type, JStr(V_document)),
           KV(K_children, JArr([i \in DOMAIN tokens |-> tokenToJSON(tokens[i])]))>>)

\* convertToJSON(parsed, baseFilename, options) at time t
convertToJSON(parsed, baseFilename, options, t) ==
    LET jsonData ==
            JObj(<<KV(K_metadata,
                      JObj(<<KV(K_filename, JStr(baseFilename)),
                             KV(K_convertedAt, JStr(toISOString(t))),
                             KV(K_format, JStr(V_json))>>
                           \o (IF options.includeMetadata
                               THEN <<KV(K_generator, JStr(V_generatorName)),
                                      KV(K_version, JStr(V_versionNumber))>>
                               ELSE << >>))),
                   KV(K_content,
                      JObj(<<KV(K_structure, toJSON(parsed.tokens)),
                             KV(K_html, JStr(parsed.html)),
                             KV(K_plainText, JStr(parsed.plainText))>>))>>)
    IN  Success(JsonStringify(jsonData, IF options.prettify THEN 2 ELSE 0, 0),
                baseFilename \o DotJson, <<"application/json">>)

----------------------------------------------------------------------------
(* FileConverter.convert *)

Formats == {"html", "json", "txt"}

\* the ConversionResult of the catch block
Failure(message) ==
    [content |-> << >>, filename |-> << >>, mimeType |-> << >>,
     success |-> FALSE, error |-> JsString(<<message>>)]

Returns(result) == [kind |-> "return", value |-> result, error |-> ""]
Throws(message) == [kind |-> "throw", value |-> Failure(message), error |-> message]

\* the body of the try block of convert: the result it returns, or the error
\* thrown inside it; env holds the time, whether window is defined and the
\* stage in which the runtime raises an error of its own, if any
convertTry(markdownContent, format, options, env) ==
    LET parsed == parse(markdownContent, env.hasWindow)
    IN  IF env.fault = "parse" THEN Throws("RangeError")
        ELSE IF parsed.kind = "throw" THEN Throws(parsed.error)
        ELSE IF options.kind # "object" THEN Throws("TypeError")
        ELSE LET base == getBaseFilename(options.originalFilename, env.now)
             IN  IF base.kind = "throw" THEN Throws(base.error)
                 ELSE IF format \notin Formats
                 THEN Throws("Unsupported format: " \o format)
                 ELSE IF env.fault = "render" THEN Throws("RangeError")
                 ELSE CASE format = "html" ->
                              Returns(convertToHTML(parsed, base.value, options, env.now))
                        [] format = "json" ->
                              Returns(convertToJSON(parsed, base.value, options, env.now))
                        [] format = "txt" ->
                              Returns(convertToPlainText(parsed, base.value, options, env.now))

\* a convert whose try block does not cover the call (errors propagate)
convertUncaught(markdownContent, format, options, env) ==
    convertTry(markdownContent, format, options, env)

\* a convert whose catch block keeps the name and type it had computed
convertLeakyCatch(markdownContent, format, options, env) ==
    LET tried == convertTry(markdownContent, format, options, env)
    IN  IF tried.kind = "throw"
        THEN Returns([Failure(tried.error) EXCEPT !.mimeType = <<"text/plain">>])
        ELSE tried

\* convert(markdownContent, format, options): the catch block turns every
\* error thrown in the try block into a failed ConversionResult
convert(markdownContent, format, options, env) ==
    LET tried == convertTry(markdownContent, format, options, env)
    IN  IF tried.kind = "throw" THEN Returns(Failure(tried.error)) ELSE tried

----------------------------------------------------------------------------
(* RateLimiter *)

\* the filter of both methods: time => now - time < this.windowMs
InWindow(time, t, w) == t - time < w

Prune(reqs, t, w) == SelectSeq(reqs, LAMBDA time : InWindow(time, t, w))

\* a limiter that admits one request too many (length > maxRequests)
canMakeRequestOffByOne(reqs, t, maxR, w) ==
    LET kept == Prune(reqs, t, w)
    IN  IF Len(kept) > maxR
        THEN [requests |-> kept, ret |-> FALSE]
        ELSE [requests |-> Append(kept, t), ret |-> TRUE]

\* a limiter that never drops the expired timestamps
canMakeRequestNoPrune(reqs, t, maxR, w) ==
    IF Len(reqs) >= maxR
    THEN [requests |-> reqs, ret |-> FALSE]
    ELSE [requests |-> Append(reqs, t), ret |-> TRUE]

\* canMakeRequest(): the new this.requests and the returned value
canMakeRequest(reqs, t, maxR, w) ==
    LET kept == Prune(reqs, t, w)
    IN  IF Len(kept) >= maxR
        THEN [requests |-> kept, ret |-> FALSE]
        ELSE [requests |-> Append(kept, t), ret |-> TRUE]

\* a getRemainingRequests that reports the headroom without the floor at 0
\* and counts the expired timestamps too
getRemainingRequestsStale(reqs, t, maxR, w) ==
    [requests |-> reqs, ret |-> Max(0, maxR - Len(reqs))]

\* a getRemainingRequests that records the call as a request
getRemainingRequestsRecording(reqs, t, maxR, w) ==
    LET kept == Prune(reqs, t, w)
    IN  [requests |-> Append(kept, t), ret |-> Max(0, maxR - Len(kept))]

\* getRemainingRequests(): the new this.requests and the returned value
getRemainingRequests(reqs, t, maxR, w) ==
    LET kept == Prune(reqs, t, w)
    IN  [requests |-> kept, ret |-> Max(0, maxR - Len(kept))]

----------------------------------------------------------------------------
(* The page at mount *)

\* null, where a File is expected
NoFile == [kind |-> "null", name |-> << >>, size |-> 0, type |-> "", text |-> << >>]

File(name, size, type, text) ==
    [kind |-> "file", name |-> name, size |-> size, type |-> type, text |-> text]

\* useState of Home
FreshHome ==
    [markdownContent |-> << >>, filename |-> << >>, error |-> "",
     isProcessing |-> FALSE]

\* useState of FileUpload; reading is the file FileReader is working on
FreshFileUpload ==
    [isProcessing |-> FALSE, uploadedFile |-> NoFile, reading |-> NoFile]

\* null, where a ConversionResult is expected
NullResult == [kind |-> "null", value |-> Failure("")]
ResultOf(result) == [kind |-> "result", value |-> result]

\* useState of ConversionPanel
FreshConversionState ==
    [f \in Formats |-> [result |-> NullResult, isConverting |-> FALSE,
                        error |-> JsNull]]

\* no handler of ConversionPanel has run
NoHandler == [handler |-> "none", format |-> "none"]

\* ConversionPanel after mount: copyStatus is {}, no clipboard write is
\* awaited; seq counts the clicks on its buttons
FreshPanel ==
    [copyStatus |-> [f \in Formats |-> FALSE], copying |-> {},
     last |-> NoHandler, seq |-> 0]

\* the n-th file handed to handleFileSelection; none for n = 0
Upload(n, file) == [upload |-> n, file |-> file]
NoUpload == Upload(0, NoFile)

InitPage ==
    /\ home = FreshHome
    /\ fileUpload = FreshFileUpload
    /\ conversionState = FreshConversionState
    /\ timers = {}
    /\ panel = FreshPanel
    /\ uploads = 0
    /\ refused = {}
    /\ shown = NoUpload
    /\ parseCalls = << >>
    /\ callbacks = << >>
    /\ convertCalls = << >>

----------------------------------------------------------------------------
(* The limiter on its own: any caller, any sequence of calls *)

\* new RateLimiter(maxRequests, windowMs)
InitLimiter ==
    /\ requests = << >>
    /\ maxRequests \in 1..MaxMaxRequests
    /\ windowMs \in {k * ClockStepMs : k \in 1..MaxWindowSteps}
    /\ canRet = FALSE
    /\ remRet = 0
    /\ calls = << >>

\* no convert call has been made
NoCall ==
    [text |-> JsUndefined, format |-> "", options |-> JsNull,
     env |-> [now |-> 0, hasWindow |-> FALSE, fault |-> "none"]]

NoOutcome == [kind |-> "none", value |-> Failure(""), error |-> ""]

InitConverter ==
    /\ cvCall = NoCall
    /\ cvOut = NoOutcome

\* no pure function has been called
NoFnCall == [fn |-> "none", arg |-> << >>, done |-> FALSE]

InitFn ==
    /\ fnCall = NoFnCall
    /\ fnRet = FALSE

InitRL ==
    /\ InitLimiter
    /\ InitConverter
    /\ InitFn
    /\ InitPage
    /\ now = 0
    /\ lastOp = "new"

\* Date.now() moves on
Tick ==
    /\ now < MaxClockSteps * ClockStepMs
    /\ now' = now + ClockStepMs
    /\ lastOp' = "tick"
    /\ UNCHANGED <<limiterVars, convVars, fnVars, pageVars, pageLogVars>>

CallCanMakeRequest ==
    /\ Len(calls) < MaxCalls
    /\ LET r == canMakeRequest(requests, now, maxRequests, windowMs)
       IN  /\ requests' = r.requests
           /\ canRet' = r.ret
           /\ calls' = Append(calls,
                  [time |-> now, ret |-> r.ret,
                   oldest |-> IF r.requests = << >> THEN -1 ELSE Head(r.requests)])
    /\ lastOp' = "canMakeRequest"
    /\ UNCHANGED <<maxRequests, windowMs, now, remRet, convVars, fnVars, pageVars,
                   pageLogVars>>

CallGetRemainingRequests ==
    /\ LET r == getRemainingRequests(requests, now, maxRequests, windowMs)
       IN  /\ requests' = r.requests
           /\ remRet' = r.ret
    /\ lastOp' = "getRemainingRequests"
    /\ UNCHANGED <<maxRequests, windowMs, now, canRet, calls, convVars, fnVars,
                   pageVars, pageLogVars>>

NextRL == Tick \/ CallCanMakeRequest \/ CallGetRemainingRequests

SpecRL == InitRL /\ [][NextRL]_vars

----------------------------------------------------------------------------
(* Observations used by the claims about the limiter *)

AdmittedCalls == {i \in DOMAIN calls : calls[i].ret}

\* the admitted requests with a timestamp in the trailing window (T - w, T]
AdmittedInWindow(T) ==
    {i \in AdmittedCalls : T - windowMs < calls[i].time /\ calls[i].time <= T}

\* the timestamps of a sequence that are still inside the window at time t
Retained(reqs, t) == SelectSeq(reqs, LAMBDA time : time > t - windowMs)

\* how many canMakeRequest calls in a row, all made at time t, are admitted
RECURSIVE AdmittedInARow(_, _, _)
AdmittedInARow(reqs, t, fuel) ==
    IF fuel = 0 THEN 0
    ELSE LET r == canMakeRequest(reqs, t, maxRequests, windowMs)
         IN  IF r.ret THEN 1 + AdmittedInARow(r.requests, t, fuel - 1) ELSE 0

\* a step that is a canMakeRequest call: the call log grows
IsCanMakeRequestStep == Len(calls') = Len(calls) + 1

----------------------------------------------------------------------------
(* C3: canMakeRequest at time now drops the timestamps outside the window,
   then returns true and records now exactly when fewer than maxRequests
   timestamps remain; otherwise it returns false and records nothing. *)
C3_CanMakeRequestContract ==
    [][IsCanMakeRequestStep =>
         LET kept == Retained(requests, now)
         IN  /\ canRet' = (Len(kept) < maxRequests)
             /\ canRet' => requests' = Append(kept, now)
             /\ ~canRet' => requests' = kept]_vars

\* a refused call that came after an expired timestamp had been dropped
C3_Witness ==
    /\ lastOp = "canMakeRequest"
    /\ canRet = FALSE
    /\ Cardinality(AdmittedCalls) > Len(requests)
    /\ Len(requests) = maxRequests

(* C4: at every instant T at most maxRequests admitted requests have a
   timestamp in (T - windowMs, T], and the retained list never holds more
   than maxRequests entries. *)
C4_SlidingWindowBound ==
    /\ \A T \in TimePoints : Cardinality(AdmittedInWindow(T)) <= maxRequests
    /\ Len(requests) <= maxRequests

\* more requests admitted over time than one window allows, the window full
C4_Witness ==
    /\ Cardinality(AdmittedCalls) > maxRequests
    /\ Cardinality(AdmittedInWindow(now)) = maxRequests
    /\ \E i \in DOMAIN calls : ~calls[i].ret

(* C5: from a fresh limiter the calls made inside the first window are
   admitted exactly up to the maxRequests-th (true, true, false for
   maxRequests = 2); a refused caller is admitted by the first call made once
   windowMs has elapsed since the oldest retained admission, and the refused
   calls in between do not move that moment. *)
C5_RefusedThenReadmitted ==
    /\ \A i \in DOMAIN calls :
          calls[i].time - calls[1].time < windowMs
              => (calls[i].ret <=> i <= maxRequests)
    /\ \A i \in DOMAIN calls : \A j \in DOMAIN calls :
          (/\ i < j
           /\ ~calls[i].ret
           /\ calls[j].time >= calls[i].oldest + windowMs
           /\ \A k \in (i+1)..(j-1) : calls[k].time < calls[i].oldest + windowMs)
              => calls[j].ret
    /\ \A i \in DOMAIN calls : \A j \in DOMAIN calls :
          (/\ i < j
           /\ ~calls[i].ret
           /\ ~calls[j].ret
           /\ \A k \in (i+1)..(j-1) : ~calls[k].ret)
              => calls[j].oldest = calls[i].oldest

\* refused, refused again later, then admitted when the window has elapsed
C5_Witness ==
    \E i \in DOMAIN calls : \E k \in DOMAIN calls : \E j \in DOMAIN calls :
        /\ i < k /\ k < j
        /\ ~calls[i].ret /\ ~calls[k].ret /\ calls[j].ret
        /\ calls[k].time > calls[i].time
        /\ calls[j].time = calls[i].oldest + windowMs

(* C6: getRemainingRequests returns max(0, maxRequests - n), n the number of
   recorded admissions still inside the window; it records no request, its
   value is within 0..maxRequests, and it is the number of canMakeRequest
   calls that would be admitted in a row at that instant. *)
C6_RemainingRequests ==
    [][(lastOp' = "getRemainingRequests") =>
         /\ remRet' = Max(0, maxRequests - Cardinality(AdmittedInWindow(now)))
         /\ remRet' \in 0..maxRequests
         /\ Len(requests') <= Len(requests)
         /\ now \notin {requests'[i] : i \in DOMAIN requests'}
                \/ now \in {requests[i] : i \in DOMAIN requests}
         /\ calls' = calls
         /\ remRet' = AdmittedInARow(requests', now, maxRequests + 1)]_vars

\* headroom strictly between 0 and maxRequests, with an expired admission
C6_Witness ==
    /\ lastOp = "getRemainingRequests"
    /\ remRet > 0
    /\ remRet < maxRequests
    /\ \E i \in AdmittedCalls : calls[i].time <= now - windowMs

(* C7 as stated: the timestamp sequence is mutated only by canMakeRequest;
   every other operation, getRemainingRequests included, leaves it
   unchanged. *)
C7_OnlyAdmissionCheckMutates ==
    [][~IsCanMakeRequestStep => requests' = requests]_vars

(* C7 as amended: only canMakeRequest adds a timestamp; getRemainingRequests
   mutates the sequence too, but only by dropping the timestamps that have
   left the window; every other operation leaves it unchanged. *)
C7_OnlyAdmissionCheckAdds ==
    [][~IsCanMakeRequestStep =>
         IF lastOp' = "getRemainingRequests"
         THEN requests' = Retained(requests, now)
         ELSE requests' = requests]_vars

\* getRemainingRequests has emptied a sequence that held an admission
C7_Witness ==
    /\ lastOp = "getRemainingRequests"
    /\ requests = << >>
    /\ calls # << >>
    /\ calls[Len(calls)].ret

----------------------------------------------------------------------------
(* A caller of FileConverter.convert: any text, format and options *)

\* original filenames
Name_notes ==
    <<"n", "o", "t", "e", "s", ".", "m", "d">>
Name_traversal ==
    <<".", ".", "/", ".", ".", "/", "e", "t", "c", "/", "p", "a", "s", "s",
      "w", "d", ".", "m", "d">>
Name_dots ==
    <<".", ".", ".">>

\* the values passed as markdownContent: the sources, and a value that is
\* not a string
TextValues == {JsString(t) : t \in SampleTexts} \cup {JsNumber}

\* the values passed as format, one of them outside ConversionFormat
FormatValues == Formats \cup {"pdf"}

\* a ConversionOptions object
Options(originalFilename, prettify, includeMetadata) ==
    [kind |-> "object", originalFilename |-> originalFilename,
     prettify |-> prettify, includeMetadata |-> includeMetadata]

FilenameValues ==
    {JsUndefined, JsNumber, JsString(Name_notes), JsString(Name_traversal),
     JsString(Name_dots)}

\* the values passed as options, null among them
OptionValues ==
    {JsNull} \cup {Options(f, p, m) : f \in FilenameValues,
                                      p \in BOOLEAN, m \in BOOLEAN}

\* the stages in which the runtime may raise an error of its own
Faults == {"none", "parse", "render"}

\* the caller has chosen its arguments and has not called yet
InitConv ==
    /\ InitLimiter
    /\ cvCall \in [text : TextValues, format : FormatValues,
                    options : OptionValues,
                    env : [now : {0}, hasWindow : BOOLEAN, fault : Faults]]
    /\ cvOut = NoOutcome
    /\ InitFn
    /\ InitPage
    /\ maxRequests = 1
    /\ windowMs = ClockStepMs
    /\ now = 0
    /\ lastOp = "new"

\* converter.convert(text, format, options), called at the current time
CallConvert ==
    LET env == [cvCall.env EXCEPT !.now = now]
    IN  /\ cvCall' = [cvCall EXCEPT !.env = env]
        /\ cvOut' = convert(cvCall.text, cvCall.format, cvCall.options, env)
        /\ lastOp' = "convert"
        /\ UNCHANGED <<limiterVars, now, pageVars, pageLogVars, fnVars>>

NextConv == Tick \/ CallConvert

SpecConv == InitConv /\ [][NextConv]_vars

\* the last convert call ran into an error inside its try block
CallRaised ==
    \/ cvCall.env.fault # "none"
    \/ cvCall.text.kind # "string"
    \/ cvCall.options.kind # "object"
    \/ (~Falsy(cvCall.options.originalFilename)
            /\ cvCall.options.originalFilename.kind # "string")
    \/ cvCall.format \notin Formats

(* C1: convert never raises to its caller: for every text, format and
   options it returns a ConversionResult, and whenever parsing, base-filename
   derivation or rendering raises, the result has success = false, empty
   content, filename and mimeType, and error set to the message. *)
C1_ConvertNeverRaises ==
    cvOut.kind # "none" =>
        /\ cvOut.kind = "return"
        /\ cvOut.value.success \in BOOLEAN
        /\ CallRaised =>
              /\ cvOut.value.success = FALSE
              /\ cvOut.value.content = << >>
              /\ cvOut.value.filename = << >>
              /\ cvOut.value.mimeType = << >>
              /\ cvOut.value.error.kind = "string"
              /\ cvOut.value.error.str # << >>
        /\ ~CallRaised => cvOut.value.success = TRUE

\* base-filename derivation raised (the original filename is a number) and
\* convert returned the failed result
C1_Witness ==
    /\ cvOut.kind = "return"
    /\ cvCall.text.kind = "string"
    /\ cvCall.env.fault = "none"
    /\ cvCall.format \in Formats
    /\ cvCall.options.kind = "object"
    /\ cvCall.options.originalFilename = JsNumber
    /\ cvOut.value.success = FALSE
    /\ cvOut.value.error = JsString(<<"TypeError">>)

(* C2: convert re-validates maliciousness itself: for every source text on
   which detectMaliciousContent returns true, convert returns success = false
   with an error and empty content, for every format. *)
C2_ConvertRefusesMalicious ==
    (/\ cvOut.kind # "none"
     /\ cvCall.text.kind = "string"
     /\ detectMaliciousContent(cvCall.text.str))
        => /\ cvOut.kind = "return"
           /\ cvOut.value.success = FALSE
           /\ cvOut.value.error.kind = "string"
           /\ cvOut.value.content = << >>

----------------------------------------------------------------------------
(* The page: Home, FileUpload, MarkdownPreview and ConversionPanel *)

\* at most MaxUploads files are handed to handleFileSelection
MaxUploads == 2
\* while the page is open the clock stops after MaxPageClockSteps steps
MaxPageClockSteps == 2

Name_evil ==
    <<"e", "v", "i", "l", ".", "m", "d">>
Name_big ==
    <<"b", "i", "g", ".", "M", "D">>
Name_exe ==
    <<"n", "o", "t", "e", "s", ".", "e", "x", "e">>
Name_blank ==
    <<"b", "l", "a", "n", "k", ".", "t", "x", "t">>
Text_blank ==
    <<" ", "\n">>

\* the files the user may pick
File_good == File(Name_notes, JsLength(Text_plain), "text/markdown", Text_plain)
File_evil == File(Name_evil, JsLength(Text_onclick), "", Text_onclick)
\* a file within maxSize whose text is longer than maxContentLength
File_big == File(Name_big, JsLength(Text_big), "text/markdown", Text_big)
\* a file over maxSize; its text is never read
File_huge == File(Name_notes, DefaultMaxSize + 1, "text/markdown", Text_big)
File_exe == File(Name_exe, JsLength(Text_plain), "application/x-msdownload", Text_plain)
File_empty == File(Name_notes, 0, "text/plain", Text_empty)
File_blank == File(Name_blank, JsLength(Text_blank), "text/plain", Text_blank)

Files == {File_good, File_evil, File_big, File_huge, File_exe, File_empty, File_blank}

\* FileHandler.validateFileType(file)
validateFileType(file) ==
    \/ file.type \in {"text/markdown", "text/plain", "application/octet-stream"}
    \/ \E i \in DOMAIN DefaultAllowedExtensions :
            EndsWith(ToLowerCase(file.name), DefaultAllowedExtensions[i])

\* the events FileReader may deliver
FileReaderEvents == {"load", "error", "abort"}

\* FileHandler.readFile(file): how the promise settles on the event
readFile(file, event) ==
    IF event = "load"
    THEN IF ~Falsy(JsString(file.text))
         THEN [kind |-> "resolve", content |-> file.text, error |-> ""]
         ELSE [kind |-> "reject", content |-> << >>,
               error |-> "Failed to read file content"]
    ELSE IF event = "error"
         THEN [kind |-> "reject", content |-> << >>, error |-> "Error reading file"]
         ELSE [kind |-> "reject", content |-> << >>,
               error |-> "File reading was aborted"]

Err_TooManyRequests ==
    "Too many requests. Please wait before uploading another file."

\* the delay handed to setTimeout by handleFileRead
ProcessingDelayMs == 500

\* a handleFileRead that stores the upload whatever the limiter answered
handleFileReadUngated(h, content, originalFilename, admitted, t) ==
    [home |-> [h EXCEPT !.isProcessing = TRUE,
                        !.error = IF admitted THEN "" ELSE Err_TooManyRequests],
     timeouts |-> {[due |-> t + ProcessingDelayMs, content |-> content,
                    filename |-> originalFilename]}]

\* Home.handleFileRead(content, originalFilename) at time t, given what
\* rateLimiter.canMakeRequest() returned: the new state of Home and the
\* callbacks handed to setTimeout
handleFileRead(h, content, originalFilename, admitted, t) ==
    IF ~admitted
    THEN [home |-> [h EXCEPT !.error = Err_TooManyRequests], timeouts |-> {}]
    ELSE [home |-> [h EXCEPT !.isProcessing = TRUE, !.error = ""],
          timeouts |-> {[due |-> t + ProcessingDelayMs, content |-> content,
                         filename |-> originalFilename]}]

\* the callback of handleFileRead
onTimeout(h, timeout) ==
    [h EXCEPT !.markdownContent = timeout.content,
              !.filename = timeout.filename,
              !.isProcessing = FALSE]

\* Home.handleError(errorMessage)
handleError(h, errorMessage) ==
    [h EXCEPT !.error = errorMessage, !.isProcessing = FALSE]

\* Home.clearContent()
clearContent(h) ==
    [h EXCEPT !.markdownContent = << >>, !.filename = << >>, !.error = ""]

Err_Malicious == "Content contains potentially malicious elements"

\* the environment of a call made by the page, in the browser
Browser(t) == [now |-> t, hasWindow |-> TRUE, fault |-> "none"]

\* the options handleConvert passes to convert
PanelOptions(originalFilename) == Options(JsString(originalFilename), TRUE, TRUE)

\* an AfterConvert that resets isConverting only after a success
AfterConvertOnSuccess(entry, out) ==
    IF out.kind = "return" /\ out.value.success
    THEN [result |-> ResultOf(out.value), isConverting |-> FALSE,
          error |-> JsNull]
    ELSE [entry EXCEPT !.isConverting = TRUE,
                       !.error = JsString(<<"Conversion failed">>)]

\* the entry of a format after converter.convert returned or threw: the
\* entry had isConverting true and error null while convert ran
AfterConvert(entry, out) ==
    IF out.kind = "return"
    THEN [result |-> ResultOf(out.value),
          isConverting |-> FALSE,
          error |-> IF out.value.success THEN JsNull
                    ELSE IF Falsy(out.value.error)
                         THEN JsString(<<"Conversion failed">>)
                         ELSE out.value.error]
    ELSE [entry EXCEPT !.isConverting = FALSE,
                       !.error = JsString(<<out.error>>)]

\* handleConvert without the security check
handleConvertUnchecked(cs, markdownContent, originalFilename, format, env) ==
    LET out == convert(JsString(markdownContent), format,
                       PanelOptions(originalFilename), env)
        call == [format |-> format, out |-> out]
    IN  [state |-> [cs EXCEPT ![format] = AfterConvert(cs[format], out)],
         converts |-> <<call>>]

\* handleConvert writing a whole new state of the panel instead of
\* updating the previous one
handleConvertClobbering(cs, markdownContent, originalFilename, format, env) ==
    IF detectMaliciousContent(markdownContent)
    THEN [state |-> [FreshConversionState EXCEPT
                        ![format] = [cs[format] EXCEPT
                                        !.error = JsString(<<Err_Malicious>>)]],
          converts |-> << >>]
    ELSE LET out == convert(JsString(markdownContent), format,
                            PanelOptions(originalFilename), env)
             call == [format |-> format, out |-> out]
         IN  [state |-> [FreshConversionState EXCEPT
                            ![format] = AfterConvert(cs[format], out)],
              converts |-> <<call>>]

\* ConversionPanel.handleConvert(format) in the environment env: the new
\* conversionState and the convert calls made
handleConvertIn(cs, markdownContent, originalFilename, format, env) ==
    IF detectMaliciousContent(markdownContent)
    THEN [state |-> [cs EXCEPT ![format].error = JsString(<<Err_Malicious>>)],
          converts |-> << >>]
    ELSE LET out == convert(JsString(markdownContent), format,
                            PanelOptions(originalFilename), env)
             call == [format |-> format, out |-> out]
         IN  [state |-> [cs EXCEPT ![format] = AfterConvert(cs[format], out)],
              converts |-> <<call>>]

\* ConversionPanel.handleConvert(format) at time t in the browser
handleConvert(cs, markdownContent, originalFilename, format, t) ==
    handleConvertIn(cs, markdownContent, originalFilename, format, Browser(t))

\* state.result && state.result.success
HasSuccessfulResult(entry) ==
    entry.result.kind = "result" /\ entry.result.value.success

Err_DownloadFailed == "Failed to download file"
Err_CopyFailed == "Failed to copy to clipboard"

\* ConversionPanel.handleDownload(format); domThrows: the browser raised an
\* error while FileHandler.downloadFile built or clicked the link
handleDownload(cs, format, domThrows) ==
    IF HasSuccessfulResult(cs[format]) /\ domThrows
    THEN [cs EXCEPT ![format].error = JsString(<<Err_DownloadFailed>>)]
    ELSE cs

CopyStatusMs == 2000

\* ConversionPanel.handleCopy(format), from the await of copyToClipboard
\* on; written: the clipboard write succeeded.  The new conversionState,
\* the new copyStatus and the timeouts set
handleCopySettled(cs, copyStatus, format, written, t) ==
    IF written
    THEN [state |-> cs,
          copyStatus |-> [copyStatus EXCEPT ![format] = TRUE],
          timeouts |-> {[due |-> t + CopyStatusMs, format |-> format]}]
    ELSE [state |-> [cs EXCEPT ![format].error = JsString(<<Err_CopyFailed>>)],
          copyStatus |-> copyStatus,
          timeouts |-> {}]

\* Object.keys(formatConfig)
FormatKeys == <<"html", "json", "txt">>

RECURSIVE handleConvertEach(_, _, _, _, _)
\* formats.forEach(format => handleConvert(format))
handleConvertEach(cs, markdownContent, originalFilename, formats, t) ==
    IF formats = << >> THEN [state |-> cs, converts |-> << >>]
    ELSE LET first == handleConvert(cs, markdownContent, originalFilename,
                                    Head(formats), t)
             rest == handleConvertEach(first.state, markdownContent,
                                       originalFilename, Tail(formats), t)
         IN  [state |-> rest.state, converts |-> first.converts \o rest.converts]

\* ConversionPanel.handleConvertAll()
handleConvertAll(cs, markdownContent, originalFilename, t) ==
    handleConvertEach(cs, markdownContent, originalFilename, FormatKeys, t)

\* Home renders again after one of its setters ran: line 75 calls
\* rateLimiter.getRemainingRequests()
RenderHome(reqs) ==
    LET r == getRemainingRequests(reqs, now, maxRequests, windowMs)
    IN  /\ requests' = r.requests
        /\ remRet' = r.ret

\* onError(message) called inside handleFileSelection, and its finally block
OnError(message) ==
    /\ home' = handleError(home, message)
    /\ fileUpload' = [fileUpload EXCEPT !.isProcessing = FALSE, !.reading = NoFile]
    /\ RenderHome(requests)
    /\ UNCHANGED <<canRet, calls, timers, refused>>

InitApp ==
    /\ InitLimiter
    /\ InitConverter
    /\ InitFn
    /\ InitPage
    /\ now = 0
    /\ lastOp = "new"

\* a call of a prop of FileUpload by handleFileSelection(file)
OnErrorCall(file, message) ==
    [prop |-> "onError", file |-> file, message |-> message,
     content |-> << >>, filename |-> << >>]
OnFileReadCall(file, content, filename) ==
    [prop |-> "onFileRead", file |-> file, message |-> "",
     content |-> content, filename |-> filename]
\* no prop is called: handleFileSelection awaits readFile
Awaiting(file) ==
    [prop |-> "none", file |-> file, message |-> "",
     content |-> << >>, filename |-> << >>]

\* handleFileSelection(file) up to the await of readFile: the prop it calls
beforeReadFile(file) ==
    IF ~validateFile(file).isValid
    THEN OnErrorCall(file, IF validateFile(file).error = ""
                           THEN "File validation failed"
                           ELSE validateFile(file).error)
    ELSE IF ~validateFileType(file)
    THEN OnErrorCall(file, "Please select a markdown (.md), text (.txt), or markdown (.markdown) file")
    ELSE Awaiting(file)

\* a handleFileSelection that hands on whatever was read
afterReadFileUnchecked(file, read) ==
    IF read.kind = "reject"
    THEN OnErrorCall(file, read.error)
    ELSE OnFileReadCall(file, read.content, file.name)

\* handleFileSelection(file) from the await of readFile on, read being how
\* the promise settled: the prop it calls
afterReadFile(file, read) ==
    IF read.kind = "reject"
    THEN OnErrorCall(file, read.error)
    ELSE IF Trim(read.content) = << >>
    THEN OnErrorCall(file, "File appears to be empty")
    ELSE OnFileReadCall(file, read.content, file.name)

\* FileUpload.handleFileSelection(file), up to the await of readFile
SelectFile ==
    \E file \in Files :
        /\ home.markdownContent = << >>
        /\ ~home.isProcessing
        /\ ~fileUpload.isProcessing
        /\ uploads < MaxUploads
        /\ uploads' = uploads + 1
        /\ IF beforeReadFile(file).prop = "onError"
           THEN /\ OnError(beforeReadFile(file).message)
                /\ callbacks' = <<beforeReadFile(file)>>
           ELSE /\ fileUpload' = [fileUpload EXCEPT !.isProcessing = TRUE,
                                                    !.reading = file]
                /\ callbacks' = << >>
                /\ UNCHANGED <<home, requests, remRet, canRet, calls, timers,
                               refused>>
        /\ lastOp' = "page"
        /\ parseCalls' = << >>
        /\ convertCalls' = << >>
        /\ UNCHANGED <<maxRequests, windowMs, now, panel, convVars, fnVars, conversionState,
                       shown>>

\* FileUpload.handleFileSelection(file), from the await of readFile on:
\* onFileRead is Home.handleFileRead
FileRead ==
    \E event \in FileReaderEvents :
        /\ fileUpload.reading.kind = "file"
        /\ LET file == fileUpload.reading
               upload == Upload(uploads, file)
               called == afterReadFile(file, readFile(file, event))
               r == canMakeRequest(requests, now, maxRequests, windowMs)
               read_ == handleFileRead(home, called.content, called.filename,
                                       r.ret, now)
           IN  /\ callbacks' = <<called>>
               /\ IF called.prop = "onError"
                  THEN OnError(called.message)
                  ELSE /\ canRet' = r.ret
                       /\ calls' = Append(calls,
                             [time |-> now, ret |-> r.ret,
                              oldest |-> IF r.requests = << >> THEN -1
                                         ELSE Head(r.requests)])
                       /\ refused' = IF r.ret THEN refused
                                      ELSE refused \cup {upload.upload}
                       /\ home' = read_.home
                       /\ timers' = timers \cup
                             {[due |-> c.due, content |-> c.content,
                               filename |-> c.filename, upload |-> upload] :
                                 c \in read_.timeouts}
                       /\ fileUpload' = [isProcessing |-> FALSE,
                                         uploadedFile |-> file,
                                         reading |-> NoFile]
                       /\ RenderHome(r.requests)
        /\ lastOp' = "page"
        /\ parseCalls' = << >>
        /\ convertCalls' = << >>
        /\ UNCHANGED <<maxRequests, windowMs, now, panel, convVars, fnVars, conversionState,
                       uploads, shown>>

\* the callback of handleFileRead runs; with content, Home renders
\* MarkdownPreview, whose effect parses the content, and ConversionPanel in
\* place of FileUpload
TimeoutFires ==
    \E timeout \in timers :
        /\ now >= timeout.due
        /\ timers' = timers \ {timeout}
        /\ home' = onTimeout(home, timeout)
        /\ IF Falsy(JsString(timeout.content))
           THEN /\ parseCalls' = << >>
                /\ UNCHANGED <<fileUpload, conversionState, shown>>
           ELSE /\ fileUpload' = FreshFileUpload
                /\ conversionState' = FreshConversionState
                /\ shown' = timeout.upload
                /\ parseCalls' =
                      <<[time |-> now, upload |-> timeout.upload.upload,
                         file |-> timeout.upload.file,
                         content |-> timeout.content,
                         out |-> parse(JsString(timeout.content), TRUE).kind]>>
        /\ convertCalls' = << >>
        /\ callbacks' = << >>
        /\ RenderHome(requests)
        /\ lastOp' = "page"
        /\ UNCHANGED <<maxRequests, windowMs, now, panel, canRet, calls, convVars, fnVars,
                       uploads, refused>>

\* the button Upload New File
ClearContent ==
    /\ home.markdownContent # << >>
    /\ home' = clearContent(home)
    /\ fileUpload' = FreshFileUpload
    /\ conversionState' = FreshConversionState
    /\ shown' = NoUpload
    /\ RenderHome(requests)
    /\ lastOp' = "page"
    /\ parseCalls' = << >>
    /\ callbacks' = << >>
    /\ convertCalls' = << >>
    /\ UNCHANGED <<maxRequests, windowMs, now, panel, canRet, calls, convVars, fnVars, timers,
                   uploads, refused>>

\* the button that closes the error alert
DismissError ==
    /\ home.error # ""
    /\ home' = [home EXCEPT !.error = ""]
    /\ RenderHome(requests)
    /\ lastOp' = "page"
    /\ parseCalls' = << >>
    /\ callbacks' = << >>
    /\ convertCalls' = << >>
    /\ UNCHANGED <<maxRequests, windowMs, now, panel, canRet, calls, convVars, fnVars,
                   fileUpload, conversionState, timers, uploads, refused, shown>>

\* the convert calls of a handler, as the page observes them
Logged(converts) ==
    [i \in DOMAIN converts |->
        [time |-> now, upload |-> shown.upload, file |-> shown.file,
         content |-> home.markdownContent, format |-> converts[i].format,
         out |-> converts[i].out.kind]]

\* the page ran a handler of ConversionPanel
Converted(handled) ==
    /\ conversionState' = handled.state
    /\ convertCalls' = Logged(handled.converts)
    /\ parseCalls' = << >>
    /\ callbacks' = << >>
    /\ lastOp' = "page"
    /\ UNCHANGED <<limiterVars, now, panel, convVars, fnVars, home, fileUpload, timers,
                   uploads, refused, shown>>

\* a Convert button of ConversionPanel
ClickConvert ==
    \E format \in Formats :
        /\ home.markdownContent # << >>
        /\ Converted(handleConvert(conversionState, home.markdownContent,
                                   home.filename, format, now))

\* the button Convert All
ClickConvertAll ==
    /\ home.markdownContent # << >>
    /\ Converted(handleConvertAll(conversionState, home.markdownContent,
                                  home.filename, now))

\* Date.now() moves on while the page is open
TickPage ==
    /\ now < MaxPageClockSteps * ClockStepMs
    /\ Tick

NextApp ==
    \/ TickPage
    \/ SelectFile
    \/ FileRead
    \/ TimeoutFires
    \/ ClearContent
    \/ DismissError
    \/ ClickConvert
    \/ ClickConvertAll

SpecApp == InitApp /\ [][NextApp]_vars

----------------------------------------------------------------------------
(* Observations used by the claims about the page *)

\* a step in which handleFileRead was refused by the limiter
IsRefusalStep == refused' # refused

\* the page neither holds nor is about to hold upload id, and the calls of
\* the last step were not made for it
NeverReached(id, held, pending, parses, converts) ==
    /\ held.upload # id
    /\ \A c \in pending : c.upload.upload # id
    /\ \A i \in DOMAIN parses : parses[i].upload # id
    /\ \A i \in DOMAIN converts : converts[i].upload # id

\* the file of a call passed validateFile and its text passed validateContent
Validated(call) ==
    /\ validateFile(call.file).isValid
    /\ validateContent(JsLength(call.content), DefaultMaxContentLength).isValid

(* C8: a request refused by the rate limiter never reaches the converter:
   when canMakeRequest returns false in handleFileRead, the content and the
   filename of Home stay as they were, the error becomes the Too many
   requests message, no timeout is scheduled, and no parse or convert call
   is ever made for that upload. *)
C8_RefusedUploadNeverReachesConverter ==
    [][/\ IsRefusalStep =>
            /\ home'.markdownContent = home.markdownContent
            /\ home'.filename = home.filename
            /\ home'.error = Err_TooManyRequests
            /\ timers' = timers
       /\ \A id \in refused' :
            NeverReached(id, shown', timers', parseCalls', convertCalls')]_vars

\* the second upload was refused after the first one was admitted, and the
\* page shows the message and no content
C8_Witness ==
    /\ uploads \in refused
    /\ uploads > 1
    /\ canRet = FALSE
    /\ fileUpload.uploadedFile.kind = "file"
    /\ home.error = Err_TooManyRequests
    /\ home.markdownContent = << >>
    /\ timers = {}

(* C9: every invocation of FileConverter.convert made by the page is preceded
   by its own admission by canMakeRequest, so in any trailing window of
   windowMs convert is invoked at most maxRequests times.  The convert calls
   of one handler run are made at one instant, inside every window that
   holds it: they are at most maxRequests, and at most as many as the
   requests admitted so far. *)
C9_EveryConvertAdmitted ==
    /\ Len(convertCalls) <= maxRequests
    /\ Len(convertCalls) <= Cardinality(AdmittedCalls)

(* C10: conversion never starts for input that violates validation: parse
   and convert are invoked only on content whose file passed validateFile
   and whose text length passed validateContent (at most maxContentLength
   characters). *)
C10_OnlyValidatedInputConverted ==
    /\ \A i \in DOMAIN parseCalls : Validated(parseCalls[i])
    /\ \A i \in DOMAIN convertCalls : Validated(convertCalls[i])

----------------------------------------------------------------------------
(* The pure functions on their own: a caller picks a function and its
   argument, and calls it once *)

\* the rest of the program is idle
InitIdle ==
    /\ InitLimiter
    /\ maxRequests = 1
    /\ windowMs = ClockStepMs
    /\ InitConverter
    /\ InitPage
    /\ now = 0
    /\ lastOp = "new"

FnCall(fn, arg) == [fn |-> fn, arg |-> arg, done |-> FALSE]

\* the call of fn returns
Returned(fn) == fnCall.fn = fn /\ fnCall.done

idleVars == <<limiterVars, now, lastOp, convVars, pageVars, pageLogVars>>

\* ---- validateFile

Name_markdown ==
    <<"a", ".", "m", "a", "r", "k", "d", "o", "w", "n">>
Name_txt ==
    <<"R", "E", "A", "D", "M", "E", ".", "T", "X", "T">>
Name_noDot ==
    <<"m", "d">>
Name_extOnly ==
    <<".", "m", "d">>
Name_double ==
    <<"a", ".", "m", "d", ".", "e", "x", "e">>
Ext_MD ==
    <<".", "M", "D">>

ValidateFileNames ==
    {Name_notes, Name_big, Name_exe, Name_markdown, Name_txt, Name_noDot,
     Name_extOnly, Name_double, << >>}

\* size limits and extension lists a caller may pass
ValidateFileOptions ==
    {FileValidationOptions(m, e) :
        m \in {0, 1, DefaultMaxSize},
        e \in {DefaultAllowedExtensions, <<Ext_MD>>, << >>}}

\* the sizes around a limit
SizesAround(maxSize) == {0, maxSize - 1, maxSize, maxSize + 1} \cap Nat

ValidateFileArgs ==
    UNION {{[file |-> [name |-> n, size |-> z], options |-> o] :
                n \in ValidateFileNames, z \in SizesAround(o.maxSize)} :
           o \in ValidateFileOptions}

CallValidateFile ==
    /\ fnCall.fn = "validateFile"
    /\ ~fnCall.done
    /\ fnRet' = validateFileWith(fnCall.arg.file, fnCall.arg.options)
    /\ fnCall' = [fnCall EXCEPT !.done = TRUE]
    /\ UNCHANGED idleVars

\* ---- sanitizeFilename

\* a safe letter, a dot and a path separator
FilenameAlphabet == {"a", ".", "/"}

\* the strings of at most n characters
StringsUpTo(n) == UNION {[1..k -> FilenameAlphabet] : k \in 0..n}

\* n letters
Letters(n) == [i \in 1..n |-> "a"]

\* the runs that bring a name to the length limit, or just below it
LongRuns == {Letters(k) : k \in (MaxFilenameLength - 2)..MaxFilenameLength}

SanitizeFilenameArgs ==
    StringsUpTo(MaxShortName)
        \cup {pre \o run \o post :
                  pre \in StringsUpTo(MaxShortName - 1), run \in LongRuns,
                  post \in StringsUpTo(MaxShortName - 1)}

CallSanitizeFilename ==
    /\ fnCall.fn = "sanitizeFilename"
    /\ ~fnCall.done
    /\ fnRet' = sanitizeFilename(fnCall.arg)
    /\ fnCall' = [fnCall EXCEPT !.done = TRUE]
    /\ UNCHANGED idleVars

\* ---- detectMaliciousContent

Content_scriptTag ==
    <<"<", "s", "c", "r", "i", "p", "t", ">", "a", "l", "e", "r", "t", "(",
      "1", ")", "<", "/", "s", "c", "r", "i", "p", "t", ">">>
Content_scriptUpper ==
    <<"<", "S", "C", "R", "I", "P", "T", " ", "S", "R", "C", "=", "x", ">">>
Content_scriptUnclosed ==
    <<"<", "s", "c", "r", "i", "p", "t">>
Content_scriptWord ==
    <<"a", " ", "<", " ", "b", ",", " ", "s", "e", "e", " ", "s", "c", "r",
      "i", "p", "t">>
Content_javascript ==
    <<"J", "a", "v", "a", "S", "c", "r", "i", "p", "t", ":", "g", "o">>
Content_dataHtml ==
    <<"d", "a", "t", "a", ":", "t", "e", "x", "t", "/", "h", "t", "m", "l",
      ",", "x">>
Content_vbscript ==
    <<"V", "B", "S", "c", "r", "i", "p", "t", ":", "x">>
Content_onload ==
    <<"<", "i", "m", "g", " ", "o", "n", "l", "o", "a", "d", "=", "x", ">">>
Content_onerror ==
    <<"o", "n", "e", "r", "r", "o", "r", " ", "=", " ", "x">>
Content_onclickTab ==
    <<"O", "N", "C", "L", "I", "C", "K", "\t", "=", "x">>
Content_evalSpaced ==
    <<"e", "v", "a", "l", " ", "(", "x", ")">>
Content_evalUpper ==
    <<"E", "V", "A", "L", "(", "x", ")">>
Content_documentWrite ==
    <<"D", "o", "c", "u", "m", "e", "n", "t", ".", "W", "r", "i", "t", "e",
      "(", "x", ")">>
Content_onmouseover ==
    <<"<", "b", " ", "o", "n", "m", "o", "u", "s", "e", "o", "v", "e", "r",
      "=", "x", ">">>
Content_onfocus ==
    <<"o", "n", "f", "o", "c", "u", "s", " ", "=", " ", "x">>
Content_onNothing ==
    <<"o", "n", " ", "=", " ", "x">>
Content_evaluate ==
    <<"e", "v", "a", "l", "u", "a", "t", "e">>
Content_javaScript ==
    <<"j", "a", "v", "a", " ", "s", "c", "r", "i", "p", "t", ":">>
Content_click ==
    <<"c", "l", "i", "c", "k", "=", "x">>

DetectContents ==
    {Content_scriptTag, Content_scriptUpper, Content_scriptUnclosed,
     Content_scriptWord, Content_javascript, Content_dataHtml,
     Content_vbscript, Content_onload, Content_onerror,
     Content_onclickTab, Content_evalSpaced, Content_evalUpper,
     Content_documentWrite, Content_onmouseover, Content_onfocus,
     Content_onNothing, Content_evaluate, Content_javaScript,
     Content_click}
        \cup {Text_plain, Text_onclick, Text_script, Text_empty}

CallDetectMaliciousContent ==
    /\ fnCall.fn = "detectMaliciousContent"
    /\ ~fnCall.done
    /\ fnRet' = detectMaliciousContent(fnCall.arg)
    /\ fnCall' = [fnCall EXCEPT !.done = TRUE]
    /\ UNCHANGED idleVars

\* ---- renderer.link and renderer.image

Url_httpsUpper ==
    <<"H", "T", "T", "P", "S", ":", "/", "/", "A", ".", "i", "o">>
Url_mailto ==
    <<"m", "a", "i", "l", "t", "o", ":", "a", "@", "b", ".", "i", "o">>
Url_httpNoSlash ==
    <<"h", "t", "t", "p", ":", "a", ".", "i", "o">>
Url_httpSpaceBefore ==
    <<" ", "h", "t", "t", "p", ":", "/", "/", "a", ".", "i", "o">>
Url_httpPort ==
    <<"h", "t", "t", "p", ":", "/", "/", "a", ".", "i", "o", ":", "8", "0",
      "8", "0", "/", "x", "?", "q", "=", "1", "#", "f">>
Url_httpUser ==
    <<"h", "t", "t", "p", "s", ":", "/", "/", "u", ":", "p", "@", "a", ".",
      "i", "o", "/">>
Url_javascript ==
    <<"j", "a", "v", "a", "s", "c", "r", "i", "p", "t", ":", "a", "l", "e",
      "r", "t", "(", "1", ")">>
Url_javascriptMixed ==
    <<"J", "a", "V", "a", "S", "c", "R", "i", "P", "t", ":", "x">>
Url_javascriptSpace ==
    <<" ", "j", "a", "v", "a", "s", "c", "r", "i", "p", "t", ":", "x">>
Url_javascriptTab ==
    <<"j", "a", "v", "a", "\t", "s", "c", "r", "i", "p", "t", ":", "x">>
Url_data ==
    <<"d", "a", "t", "a", ":", "t", "e", "x", "t", "/", "h", "t", "m", "l",
      ",", "x">>
Url_vbscript ==
    <<"v", "b", "s", "c", "r", "i", "p", "t", ":", "x">>
Url_ftp ==
    <<"f", "t", "p", ":", "/", "/", "a", ".", "i", "o", "/", "f">>
Url_file ==
    <<"f", "i", "l", "e", ":", "/", "/", "/", "e", "t", "c", "/", "p", "a",
      "s", "s", "w", "d">>
Url_relativePath ==
    <<"/", "d", "o", "c", "s", "/", "p", "a", "g", "e">>
Url_relativeFile ==
    <<"p", "a", "g", "e", ".", "h", "t", "m", "l">>
Url_fragment ==
    <<"#", "t", "o", "p">>
Url_schemeRelative ==
    <<"/", "/", "a", ".", "i", "o", "/", "x">>
Url_httpNoHost ==
    <<"h", "t", "t", "p", ":", "/", "/">>
Url_httpBadPort ==
    <<"h", "t", "t", "p", ":", "/", "/", "a", ".", "i", "o", ":", "x", "/">>
Url_httpSpaceHost ==
    <<"h", "t", "t", "p", ":", "/", "/", "a", " ", "b", "/">>
Url_colonFirst ==
    <<":", "x">>
Url_digitScheme ==
    <<"1", "h", "t", "t", "p", ":", "/", "/", "a", ".", "i", "o">>
Url_httpQuote ==
    <<"h", "t", "t", "p", ":", "/", "/", "a", ".", "i", "o", "/", "\"",
      "o", "n", "m", "o", "u", "s", "e", "o", "v", "e", "r", "=", "\"", "x">>
Url_mailtoQuote ==
    <<"m", "a", "i", "l", "t", "o", ":", "\"", "o", "n", "c", "l", "i",
      "c", "k", "=", "\"", "x">>

UrlValues ==
    {Url_http, Url_httpsUpper, Url_mailto, Url_httpNoSlash,
     Url_httpSpaceBefore, Url_httpPort, Url_httpUser, Url_javascript,
     Url_javascriptMixed, Url_javascriptSpace, Url_javascriptTab,
     Url_data, Url_vbscript, Url_ftp, Url_file, Url_relativePath,
     Url_relativeFile, Url_fragment, Url_schemeRelative,
     Url_httpNoHost, Url_httpBadPort, Url_httpSpaceHost,
     Url_colonFirst, Url_digitScheme, Url_httpQuote, Url_mailtoQuote, << >>}

Title_quoted ==
    <<"a", " ", "\"", "b", "\"", " ", "<", "c", ">">>

\* the title of a link or an image: null when the source gives none
TitleValues == {JsNull, JsString(Title_quoted)}

\* the arguments marked passes to renderer.link and renderer.image
RendererArgs ==
    [href : UrlValues, title : TitleValues, text : {Text_plain}]

CallRendererLink ==
    /\ fnCall.fn = "renderer.link"
    /\ ~fnCall.done
    /\ fnRet' = renderer_link(fnCall.arg.href, fnCall.arg.title,
                              fnCall.arg.text)
    /\ fnCall' = [fnCall EXCEPT !.done = TRUE]
    /\ UNCHANGED idleVars

CallRendererImage ==
    /\ fnCall.fn = "renderer.image"
    /\ ~fnCall.done
    /\ fnRet' = renderer_image(fnCall.arg.href, fnCall.arg.title,
                               fnCall.arg.text)
    /\ fnCall' = [fnCall EXCEPT !.done = TRUE]
    /\ UNCHANGED idleVars

\* ---- MarkdownParser.parse

\* a source, and whether the caller runs where window is defined
ParseArgs == [markdown : ParserTexts, hasWindow : BOOLEAN]

CallParse ==
    /\ fnCall.fn = "parse"
    /\ ~fnCall.done
    /\ fnRet' = parse(JsString(fnCall.arg.markdown), fnCall.arg.hasWindow)
    /\ fnCall' = [fnCall EXCEPT !.done = TRUE]
    /\ UNCHANGED idleVars

\* ---- MarkdownParser.toJSON

\* parser.toJSON(tokens) on the tokens of a source, as convertToJSON and
\* parse obtain them
CallToJSON ==
    /\ fnCall.fn = "toJSON"
    /\ ~fnCall.done
    /\ fnRet' = toJSON(markedLexer(fnCall.arg))
    /\ fnCall' = [fnCall EXCEPT !.done = TRUE]
    /\ UNCHANGED idleVars

\* ---- FileConverter.getBaseFilename

\* no original filename, an empty one, and the names sanitizeFilename is
\* called with; the call is made at the start of the clock or one step later
GetBaseFilenameArgs ==
    [originalFilename : {JsUndefined} \cup
                            {JsString(n) : n \in SanitizeFilenameArgs},
     t : {0, ClockStepMs}]

CallGetBaseFilename ==
    /\ fnCall.fn = "getBaseFilename"
    /\ ~fnCall.done
    /\ fnRet' = getBaseFilename(fnCall.arg.originalFilename, fnCall.arg.t)
    /\ fnCall' = [fnCall EXCEPT !.done = TRUE]
    /\ UNCHANGED idleVars

\* ---- FileHandler.downloadFile

\* DownloadOptions without a filename
NoDownloadOptions == [filename |-> JsUndefined]

\* FileHandler.downloadFile(result, options): the name it gives the
\* download, or the error it throws; domThrows: the browser raised an error
\* while the blob or the link was made
downloadFile(result, options, domThrows) ==
    IF ~result.success
    THEN [kind |-> "throw", download |-> << >>,
          error |-> IF Falsy(result.error) THEN "Conversion failed"
                    ELSE result.error.str[1]]
    ELSE LET filename == IF Falsy(options.filename) THEN result.filename
                         ELSE options.filename.str
         IN  IF domThrows
             THEN [kind |-> "throw", download |-> << >>,
                   error |-> Err_DownloadFailed]
             ELSE [kind |-> "return", download |-> sanitizeFilename(filename),
                   error |-> ""]

\* the result handleConvert stored for a format of a file, handed to
\* downloadFile as handleDownload does
DownloadFileArgs ==
    [originalFilename : SanitizeFilenameArgs \ {<< >>}, format : Formats,
     domThrows : {FALSE}]
        \cup [originalFilename : {Name_notes}, format : Formats,
              domThrows : {TRUE}]

\* the result of the conversion the panel made before the download
ConvertedFor(originalFilename, format) ==
    convert(JsString(Text_plain), format, PanelOptions(originalFilename),
            Browser(0)).value

CallDownloadFile ==
    /\ fnCall.fn = "downloadFile"
    /\ ~fnCall.done
    /\ fnRet' = downloadFile(ConvertedFor(fnCall.arg.originalFilename,
                                          fnCall.arg.format),
                             NoDownloadOptions, fnCall.arg.domThrows)
    /\ fnCall' = [fnCall EXCEPT !.done = TRUE]
    /\ UNCHANGED idleVars

\* ---- FileConverter.prettifyHTML

\* markup with tags next to each other, on lines of their own, and
\* separated by blank or whitespace-only lines
Markup_adjacent ==
    <<"<", "a", ">", "<", "b", ">">>
Markup_newline ==
    <<"<", "a", ">", "\n", "<", "b", ">">>
Markup_blankLine ==
    <<"<", "a", ">", "\n", "\n", "<", "b", ">">>
Markup_blankLines ==
    <<"<", "a", ">", "\n", "\n", "\n", "<", "b", ">">>
Markup_spaceLine ==
    <<"<", "a", ">", "\n", " ", "\n", "<", "b", ">">>
Markup_indented ==
    <<"<", "a", ">", " ", "\n", " ", "<", "b", ">">>
Markup_padded ==
    <<" ", "<", "a", ">", " ">>
Markup_text ==
    <<"a", "\n", "\n", " ", "b", " ", "\r", "\n", "c">>
Markup_crlf ==
    <<"<", "a", ">", "\r", "\n", "\r", "\n", "<", "b", ">">>

\* the markup convertToHTML hands to prettifyHTML for a source
ShellOf(text, includeMetadata) ==
    convert(JsString(text), "html",
            Options(JsString(Name_notes), FALSE, includeMetadata),
            Browser(0)).value.content

PrettifyArgs ==
    {<< >>, Markup_adjacent, Markup_newline, Markup_blankLine,
     Markup_blankLines, Markup_spaceLine, Markup_indented, Markup_padded,
     Markup_text, Markup_crlf}
        \cup {ShellOf(text, m) : text \in ParserTexts, m \in BOOLEAN}

CallPrettifyHTML ==
    /\ fnCall.fn = "prettifyHTML"
    /\ ~fnCall.done
    /\ fnRet' = prettifyHTML(fnCall.arg)
    /\ fnCall' = [fnCall EXCEPT !.done = TRUE]
    /\ UNCHANGED idleVars

\* ---- FileHandler.downloadMultipleFiles

\* the delay between two downloads
DownloadDelayMs == 500

\* the loop of downloadMultipleFiles from the i-th valid result on: valid
\* holds the indices of the successful results, throwsAt the indices of the
\* results for which the browser raises an error, attempts the downloadFile
\* calls made so far; a throw of downloadFile leaves the loop and rejects
\* the promise
RECURSIVE downloadEach(_, _, _, _, _)
downloadEach(results, valid, i, throwsAt, attempts) ==
    IF i > Len(valid)
    THEN [kind |-> "resolve", attempts |-> attempts, error |-> "",
          waited |-> DownloadDelayMs * (IF i > 1 THEN i - 2 ELSE 0)]
    ELSE LET out == downloadFile(results[valid[i]], NoDownloadOptions,
                                 valid[i] \in throwsAt)
         IN  IF out.kind = "throw"
             THEN [kind |-> "reject", attempts |-> Append(attempts, valid[i]),
                   error |-> out.error,
                   waited |-> DownloadDelayMs * (i - 1)]
             ELSE downloadEach(results, valid, i + 1, throwsAt,
                               Append(attempts, valid[i]))

\* a downloadMultipleFiles that goes on with the next file after a failure
\* and reports the first error at the end
downloadMultipleFilesCatching(results, throwsAt) ==
    LET indices == [i \in DOMAIN results |-> i]
        valid == SelectSeq(indices, LAMBDA i : results[i].success)
        failed == SelectSeq(valid, LAMBDA i : i \in throwsAt)
    IN  IF valid = << >>
        THEN [kind |-> "reject", attempts |-> << >>,
              error |-> "No valid files to download", waited |-> 0]
        ELSE [kind |-> IF failed = << >> THEN "resolve" ELSE "reject",
              attempts |-> valid,
              error |-> IF failed = << >> THEN "" ELSE Err_DownloadFailed,
              waited |-> DownloadDelayMs * (Len(valid) - 1)]

\* FileHandler.downloadMultipleFiles(results): how its promise settles, the
\* indices of the results handed to downloadFile, in the order of the
\* calls, and the time spent in the delays between them
downloadMultipleFiles(results, throwsAt) ==
    LET indices == [i \in DOMAIN results |-> i]
        valid == SelectSeq(indices, LAMBDA i : results[i].success)
    IN  IF valid = << >>
        THEN [kind |-> "reject", attempts |-> << >>,
              error |-> "No valid files to download", waited |-> 0]
        ELSE downloadEach(results, valid, 1, throwsAt, << >>)

\* a result of a format: a successful one, or the failed one of convert
ResultFor(format, ok) ==
    IF ok
    THEN CASE format = "html" ->
                  Success(Text_plain, <<"n", "o", "t", "e", "s">> \o DotHtml,
                          <<"text/html">>)
           [] format = "json" ->
                  Success(Text_plain, <<"n", "o", "t", "e", "s">> \o DotJson,
                          <<"application/json">>)
           [] format = "txt" ->
                  Success(Text_plain, <<"n", "o", "t", "e", "s">> \o DotTxt,
                          <<"text/plain">>)
    ELSE Failure("RangeError")

\* up to one result per format, each successful or failed, and the results
\* for which the browser raises an error
DownloadMultipleArgs ==
    UNION {{[results |-> [i \in 1..n |-> ResultFor(FormatKeys[i], oks[i])],
             throwsAt |-> T] :
                oks \in [1..n -> BOOLEAN], T \in SUBSET (1..n)} :
           n \in 0..Len(FormatKeys)}

CallDownloadMultipleFiles ==
    /\ fnCall.fn = "downloadMultipleFiles"
    /\ ~fnCall.done
    /\ fnRet' = downloadMultipleFiles(fnCall.arg.results, fnCall.arg.throwsAt)
    /\ fnCall' = [fnCall EXCEPT !.done = TRUE]
    /\ UNCHANGED idleVars

\* ---- FileConverter.convert to html, with and without prettify

\* sources with a fenced code block
CodeTexts == {Text_doc}

\* the html of a source, converted as handleConvert does and, for
\* comparison, with prettify off
ConvertHtmlArgs == [text : CodeTexts, includeMetadata : BOOLEAN]

CallConvertHtml ==
    /\ fnCall.fn = "convert html"
    /\ ~fnCall.done
    /\ fnRet' =
          [prettify \in BOOLEAN |->
              convert(JsString(fnCall.arg.text), "html",
                      Options(JsString(Name_notes), prettify,
                              fnCall.arg.includeMetadata),
                      Browser(0)).value]
    /\ fnCall' = [fnCall EXCEPT !.done = TRUE]
    /\ UNCHANGED idleVars

\* ---- the specification

InitFnCall ==
    /\ InitIdle
    /\ fnRet = FALSE
    /\ \/ fnCall \in {FnCall("validateFile", a) : a \in ValidateFileArgs}
       \/ fnCall \in {FnCall("sanitizeFilename", a) :
                          a \in SanitizeFilenameArgs}
       \/ fnCall \in {FnCall("detectMaliciousContent", a) :
                          a \in DetectContents}
       \/ fnCall \in {FnCall("renderer.link", a) : a \in RendererArgs}
       \/ fnCall \in {FnCall("renderer.image", a) : a \in RendererArgs}
       \/ fnCall \in {FnCall("parse", a) : a \in ParseArgs}
       \/ fnCall \in {FnCall("toJSON", a) : a \in ParserTexts}
       \/ fnCall \in {FnCall("getBaseFilename", a) :
                          a \in GetBaseFilenameArgs}
       \/ fnCall \in {FnCall("downloadFile", a) : a \in DownloadFileArgs}
       \/ fnCall \in {FnCall("prettifyHTML", a) : a \in PrettifyArgs}
       \/ fnCall \in {FnCall("downloadMultipleFiles", a) :
                          a \in DownloadMultipleArgs}
       \/ fnCall \in {FnCall("convert html", a) : a \in ConvertHtmlArgs}

NextFn ==
    \/ CallValidateFile
    \/ CallSanitizeFilename
    \/ CallDetectMaliciousContent
    \/ CallRendererLink
    \/ CallRendererImage
    \/ CallParse
    \/ CallToJSON
    \/ CallGetBaseFilename
    \/ CallDownloadFile
    \/ CallPrettifyHTML
    \/ CallDownloadMultipleFiles
    \/ CallConvertHtml

SpecFn == InitFnCall /\ [][NextFn]_vars

----------------------------------------------------------------------------
(* Claims about the pure functions *)

\* the name ends with one of the extensions as the caller wrote them
EndsWithListed(name, allowedExtensions) ==
    \E i \in DOMAIN allowedExtensions : EndsWith(name, allowedExtensions[i])

\* the name ends with one of the extensions, both in lower case
EndsWithAllowed(name, allowedExtensions) ==
    \E i \in DOMAIN allowedExtensions :
        EndsWith(ToLowerCase(name), ToLowerCase(allowedExtensions[i]))

IsSizeError(r) ==
    ~r.isValid /\ SubSeq(r.error, 1, Len(Msg_sizeExceeds)) = Msg_sizeExceeds

IsTypeError(r) ==
    ~r.isValid /\ SubSeq(r.error, 1, Len(Msg_invalidType)) = Msg_invalidType

\* C11 as stated: validateFile returns the size error exactly when size >
\* maxSize, the type error exactly when the size is acceptable and the
\* lowercased name ends with none of the allowed extensions (as listed),
\* and valid with no error otherwise
C11_ValidateFileAsListed ==
    Returned("validateFile") =>
        LET file == fnCall.arg.file
            opts == fnCall.arg.options
            tooBig == file.size > opts.maxSize
            listed == EndsWithListed(ToLowerCase(file.name),
                                     opts.allowedExtensions)
        IN  /\ IsSizeError(fnRet) <=> tooBig
            /\ IsTypeError(fnRet) <=> (~tooBig /\ ~listed)
            /\ (~tooBig /\ listed) => fnRet = ValidFile

\* C11: validateFile returns the size error exactly when size > maxSize
\* (size = maxSize is accepted, the size check wins), the type error exactly
\* when the size is acceptable and the lowercased name ends with none of the
\* lowercased allowed extensions, and valid with no error otherwise
C11_ValidateFileContract ==
    Returned("validateFile") =>
        LET file == fnCall.arg.file
            opts == fnCall.arg.options
            tooBig == file.size > opts.maxSize
            allowed == EndsWithAllowed(file.name, opts.allowedExtensions)
        IN  /\ IsSizeError(fnRet) <=> tooBig
            /\ IsTypeError(fnRet) <=> (~tooBig /\ ~allowed)
            /\ fnRet = ValidFile <=> (~tooBig /\ allowed)
            /\ fnRet.isValid => fnRet.error = << >>

\* a file of exactly maxSize bytes whose upper-case name has an allowed
\* extension was accepted
C11_Witness ==
    /\ Returned("validateFile")
    /\ fnCall.arg.file.size = fnCall.arg.options.maxSize
    /\ fnCall.arg.file.size = DefaultMaxSize
    /\ fnCall.arg.file.name = Name_txt
    /\ fnRet = ValidFile

\* C12: sanitizeFilename returns a string made only of characters in
\* [A-Za-z0-9._-], that does not start with a dot and has at most 255
\* characters
C12_SanitizedFilenameIsSafe ==
    Returned("sanitizeFilename") =>
        /\ \A i \in DOMAIN fnRet : fnRet[i] \in SafeFilenameChars
        /\ fnRet # << >> => fnRet[1] # "."
        /\ Len(fnRet) <= MaxFilenameLength

\* a name longer than 255 characters, with leading dots and a path
\* separator, was cut to 255 characters
C12_Witness ==
    /\ Returned("sanitizeFilename")
    /\ Len(fnCall.arg) > MaxFilenameLength
    /\ fnCall.arg[1] = "."
    /\ \E i \in DOMAIN fnCall.arg : fnCall.arg[i] = "/"
    /\ Len(fnRet) = MaxFilenameLength

\* C13: for every input, also one longer than 255 characters, the result
\* of sanitizeFilename does not end with a dot
C13_NoTrailingDot ==
    Returned("sanitizeFilename") =>
        (fnRet # << >> => fnRet[Len(fnRet)] # ".")

\* an inline event handler on<name>= occurs in c: "on", a name of letters,
\* optional white space, "="
HasInlineHandler(c) ==
    \E i \in DOMAIN c :
        /\ OccursAt(c, <<"o", "n">>, i)
        /\ \E j \in (i + 3)..Len(c) :
              /\ c[j] = "="
              /\ \E k \in (i + 3)..j :
                    /\ \A m \in (i + 2)..(k - 1) : c[m] \in Range(LowerCase)
                    /\ \A m \in k..(j - 1) : c[m] \in Whitespace

\* one of the signatures of the claim occurs in the content, in any case
HasSignature(content) ==
    LET c == ToLowerCase(content)
    IN  \/ Matches(c, Pat_script)
        \/ Matches(c, Pat_javascript)
        \/ Matches(c, Pat_dataTextHtml)
        \/ Matches(c, Pat_vbscript)
        \/ MatchesSpaced(c, Pat_eval, Pat_paren)
        \/ Matches(c, Pat_documentWrite)
        \/ HasInlineHandler(c)

\* C14: detectMaliciousContent returns true for content with <script,
\* javascript:, data:text/html, vbscript:, eval(, document.write or any
\* inline handler on<name>=, in any case, and false for content with none
C14_DetectsEverySignature ==
    Returned("detectMaliciousContent") =>
        (fnRet <=> HasSignature(fnCall.arg))

\* the value of the first attribute `name="..."` of a tag, as an HTML
\* parser reads it: the characters between the opening quote and the next
\* double quote
AttributeValue(markup, opening) ==
    LET from == Len(opening) + 1
        quote == FirstIn(markup, {"\""}, from)
    IN  SubSeq(markup, from, quote - 1)

\* the URL is absolute and its scheme is http, https or mailto
IsSafeAbsoluteUrl(url) ==
    parseUrl(url).ok /\ parseUrl(url).protocol \in SafeProtocols

\* the href of the link, or the src of the image, that the call emitted
EmittedUrl ==
    IF fnCall.fn = "renderer.link" THEN AttributeValue(fnRet, Tpl_aHref)
    ELSE AttributeValue(fnRet, Tpl_imgSrc)

\* C15: every link href and image src emitted by the renderer is the
\* output of sanitizeUrl: the original URL, which then parses as an
\* absolute URL of scheme http, https or mailto, or the placeholder '#';
\* any other scheme, a relative URL and a parse failure yield '#'
C15_EmittedUrlIsSanitized ==
    (Returned("renderer.link") \/ Returned("renderer.image")) =>
        LET url == fnCall.arg.href
        IN  /\ EmittedUrl = sanitizeUrl(url)
            /\ \/ EmittedUrl = url /\ IsSafeAbsoluteUrl(url)
               \/ EmittedUrl = UrlPlaceholder
            /\ ~IsSafeAbsoluteUrl(url) => EmittedUrl = UrlPlaceholder

\* the positions where a start tag opens in the markup
TagOpens(html) ==
    {i \in 1..(Len(html) - 1) : html[i] = "<" /\ html[i + 1] \in AsciiAlpha}

\* the start tag that opens at position i, up to its ">"
TagText(html, i) == SubSeq(html, i, FirstIn(html, {">"}, i))

\* the name of the start tag t
TagName(t) ==
    ToLowerCase(SubSeq(t, 2, FirstIn(t, Whitespace \cup {">", "/"}, 2) - 1))

\* position b of the start tag t lies inside a quoted attribute value
InQuotes(t, b) == Cardinality({k \in 1..(b - 1) : t[k] = "\""}) % 2 = 1

AttributeNameChars == AsciiAlpha \cup Digits \cup {"-", "_"}

\* the names of the attributes of the start tag t: the runs of name
\* characters that end right before an "=" outside the attribute values
AttributeNames(t) ==
    {ToLowerCase(SubSeq(t, a, b - 1)) :
        <<a, b>> \in {ab \in (DOMAIN t) \X (DOMAIN t) :
                         /\ ab[1] < ab[2]
                         /\ t[ab[2]] = "="
                         /\ ~InQuotes(t, ab[2])
                         /\ \A k \in ab[1]..(ab[2] - 1) :
                               t[k] \in AttributeNameChars
                         /\ t[ab[1] - 1] \notin AttributeNameChars}}

\* the tags and the attributes of a markup
TagsOf(html) == {TagName(TagText(html, i)) : i \in TagOpens(html)}
AttributesOf(html) ==
    UNION {AttributeNames(TagText(html, i)) : i \in TagOpens(html)}

\* the markup is what the allow-list pass lets through
PassesAllowList(html) ==
    /\ TagsOf(html) \subseteq AllowedTags
    /\ AttributesOf(html) \subseteq AllowedAttributes

\* C16: every html that MarkdownParser.parse returns has passed the
\* allow-list sanitization, in every execution environment: it holds no
\* script tag and no tag or attribute outside the allowed sets
C16_ParsedHtmlPassesAllowList ==
    (Returned("parse") /\ fnRet.kind = "return") =>
        /\ <<"s", "c", "r", "i", "p", "t">> \notin TagsOf(fnRet.html)
        /\ PassesAllowList(fnRet.html)

\* the value of the property k of a JSON object
Property(obj, k) ==
    obj.e[CHOOSE i \in DOMAIN obj.e : obj.e[i].k = k].v

HasProperty(obj, k) == \E i \in DOMAIN obj.e : obj.e[i].k = k

\* the types of the children of a document node, in order
ChildTypes(document) ==
    LET children == Property(document, K_children).e
    IN  [i \in DOMAIN children |-> Property(children[i], K_type).s[1]]

\* the blocks of the sources of the model, in source order
BlocksOf(markdown) ==
    CASE markdown = Text_empty -> << >>
      [] markdown \in {Text_plain, Text_onclick, Text_big, Text_image} ->
             <<"paragraph">>
      [] markdown = Text_script -> <<"html">>
      [] markdown = Text_paragraphs -> <<"paragraph", "paragraph">>
      [] markdown = Text_rule -> <<"hr">>
      [] markdown = Text_doc -> <<"heading", "list", "code">>

\* C17: toJSON gives {type: 'document', children} with exactly one child
\* per block of the source, in source order; for the heading, the two-item
\* list and the js code block separated by blank lines, children has
\* exactly three entries heading, list, code and children[2].language is
\* 'js'
C17_OneChildPerBlock ==
    Returned("toJSON") =>
        /\ Property(fnRet, K_type) = JStr(V_document)
        /\ ChildTypes(fnRet) = BlocksOf(fnCall.arg)
        /\ fnCall.arg = Text_doc =>
              LET children == Property(fnRet, K_children).e
              IN  /\ Len(children) = 3
                  /\ HasProperty(children[3], K_language)
                  /\ Property(children[3], K_language) = JStr(<<"j", "s">>)

----------------------------------------------------------------------------
(* Claims about the conversion to plain text *)

\* C18: conversion to plain text is deterministic: two convert calls with
\* the same text and the same options, made at any two times, return the
\* same content
C18_TxtDeterministic ==
    [][(/\ cvCall.format = "txt"
        /\ cvCall' = [cvCall EXCEPT !.env.now = now']
        /\ cvOut.kind = "return" /\ cvOut.value.success
        /\ cvOut'.kind = "return" /\ cvOut'.value.success)
            => cvOut'.value.content = cvOut.value.content]_vars

----------------------------------------------------------------------------
(* ConversionPanel on its own: Home has mounted it with some content *)

\* the contents Home hands to the panel: a plain one and a malicious one
PanelContents == {Text_plain, Text_onclick}

\* Home with content: it renders ConversionPanel
HomeWith(content) ==
    [FreshHome EXCEPT !.markdownContent = content, !.filename = Name_notes]

InitPanel ==
    /\ InitLimiter
    /\ maxRequests = 1
    /\ windowMs = ClockStepMs
    /\ InitConverter
    /\ InitFn
    /\ now = 0
    /\ lastOp = "new"
    /\ home \in {HomeWith(content) : content \in PanelContents}
    /\ fileUpload = FreshFileUpload
    /\ conversionState = FreshConversionState
    /\ timers = {}
    /\ panel = FreshPanel
    /\ uploads = 1
    /\ refused = {}
    /\ shown = NoUpload
    /\ parseCalls = << >>
    /\ callbacks = << >>
    /\ convertCalls = << >>

\* the panel ran the handler for the format
Ran(handler, format) ==
    [panel EXCEPT !.last = [handler |-> handler, format |-> format],
                  !.seq = panel.seq + 1]

panelIdleVars ==
    <<limiterVars, now, lastOp, convVars, fnVars, home, fileUpload, uploads,
      refused, shown, parseCalls, callbacks>>

\* a runtime error inside convert, or none
PanelFaults == {"none", "render"}

\* the panel ran handleConvert or handleConvertAll
PanelConverted(handled, handler, format) ==
    /\ conversionState' = handled.state
    /\ convertCalls' = Logged(handled.converts)
    /\ panel' = Ran(handler, format)
    /\ UNCHANGED <<panelIdleVars, timers>>

\* a Convert button
PanelConvert ==
    \E format \in Formats, fault \in PanelFaults :
        /\ panel.seq < MaxPanelSteps
        /\ PanelConverted(
              handleConvertIn(conversionState, home.markdownContent,
                              home.filename, format,
                              [Browser(now) EXCEPT !.fault = fault]),
              "handleConvert", format)

\* the button Convert All
PanelConvertAll ==
    /\ panel.seq < MaxPanelSteps
    /\ PanelConverted(
          handleConvertAll(conversionState, home.markdownContent,
                           home.filename, now),
          "handleConvertAll", "all")

\* a Download button
PanelDownload ==
    \E format \in Formats, domThrows \in BOOLEAN :
        /\ panel.seq < MaxPanelSteps
        /\ conversionState' = handleDownload(conversionState, format, domThrows)
        /\ convertCalls' = << >>
        /\ panel' = Ran("handleDownload", format)
        /\ UNCHANGED <<panelIdleVars, timers>>

\* a Copy button: handleCopy up to its await; without a successful result
\* the handler returns at once
PanelCopy ==
    \E format \in Formats :
        /\ panel.seq < MaxPanelSteps
        /\ format \notin panel.copying
        /\ panel' = [Ran("handleCopy", format) EXCEPT
                        !.copying =
                            IF HasSuccessfulResult(conversionState[format])
                            THEN panel.copying \cup {format}
                            ELSE panel.copying]
        /\ convertCalls' = << >>
        /\ UNCHANGED <<panelIdleVars, timers, conversionState>>

\* the clipboard write of a handleCopy settles, and the handler goes on
PanelCopySettles ==
    \E format \in panel.copying, written \in BOOLEAN :
        LET settled == handleCopySettled(conversionState, panel.copyStatus,
                                         format, written, now)
        IN  /\ conversionState' = settled.state
            /\ panel' = [panel EXCEPT
                            !.last = [handler |-> "handleCopy",
                                      format |-> format],
                            !.copyStatus = settled.copyStatus,
                            !.copying = panel.copying \ {format}]
            /\ timers' = timers \cup settled.timeouts
            /\ convertCalls' = << >>
            /\ UNCHANGED panelIdleVars

\* the timeout of handleCopy runs: the Copied mark goes away
PanelCopyStatusExpires ==
    \E timeout \in timers :
        /\ now >= timeout.due
        /\ timers' = timers \ {timeout}
        /\ panel' = [panel EXCEPT !.copyStatus[timeout.format] = FALSE]
        /\ convertCalls' = << >>
        /\ UNCHANGED <<panelIdleVars, conversionState>>

\* Upload New File and another upload: Home unmounts the panel and mounts
\* a new one; what the old one awaited is dropped with it
PanelRemount ==
    \E content \in PanelContents :
        /\ uploads < MaxUploads
        /\ uploads' = uploads + 1
        /\ home' = HomeWith(content)
        /\ conversionState' = FreshConversionState
        /\ timers' = {}
        /\ panel' = [FreshPanel EXCEPT !.seq = panel.seq]
        /\ convertCalls' = << >>
        /\ UNCHANGED <<limiterVars, now, lastOp, convVars, fnVars, fileUpload,
                       refused, shown, parseCalls, callbacks>>

\* time passes until the next timeout of the panel is due
PanelTimePasses ==
    LET due == {timeout.due : timeout \in timers}
    IN  /\ \E t \in due : t > now
        /\ now' = Least({t \in due : t > now})
        /\ now' <= MaxClockSteps * ClockStepMs
        /\ UNCHANGED <<limiterVars, lastOp, convVars, fnVars, pageVars,
                       pageLogVars>>

NextPanel ==
    \/ PanelTimePasses
    \/ PanelConvert
    \/ PanelConvertAll
    \/ PanelDownload
    \/ PanelCopy
    \/ PanelCopySettles
    \/ PanelCopyStatusExpires
    \/ PanelRemount

SpecPanel == InitPanel /\ [][NextPanel]_vars

----------------------------------------------------------------------------
(* Claims about ConversionPanel *)

\* the step is a handler run of the panel: a click on one of its buttons,
\* or the rest of a handleCopy after its await
IsHandlerStep ==
    \/ panel'.seq = panel.seq + 1
    \/ (uploads' = uploads /\ panel'.copying # panel.copying
            /\ panel'.copying \subseteq panel.copying)

\* C19: the conversion states of the three formats are independent: a
\* handler run for one format (handleConvert, handleDownload, handleCopy)
\* leaves the entries of the other two formats unchanged, also when it
\* fails and whatever other handlers ran in between; Convert All leaves in
\* each entry what handleConvert for that format alone would
C19_FormatsIndependent ==
    [][IsHandlerStep =>
          IF panel'.last.format = "all"
          THEN \A f \in Formats :
                  conversionState'[f] =
                      handleConvert(conversionState, home.markdownContent,
                                    home.filename, f, now).state[f]
          ELSE \A g \in Formats \ {panel'.last.format} :
                  conversionState'[g] = conversionState[g]]_vars

\* a copy of the html result failed after the json result was converted
\* while the copy was awaited: html holds the error and its result, json
\* its result
C19_Witness ==
    /\ panel.last = [handler |-> "handleCopy", format |-> "html"]
    /\ conversionState["html"].error = JsString(<<Err_CopyFailed>>)
    /\ HasSuccessfulResult(conversionState["html"])
    /\ HasSuccessfulResult(conversionState["json"])
    /\ conversionState["json"].result.value.content
          # conversionState["html"].result.value.content
    /\ conversionState["txt"] = FreshConversionState["txt"]

\* the step is a click on Convert or Convert All
IsConvertStep ==
    /\ panel'.seq = panel.seq + 1
    /\ panel'.last.handler \in {"handleConvert", "handleConvertAll"}

\* the formats a Convert or Convert All click is for
FormatsOf(last) ==
    IF last.format = "all" THEN Formats ELSE {last.format}

\* C20: when detectMaliciousContent is true for the content of the panel,
\* handleConvert refuses the conversion: it makes no call of
\* converter.convert, sets the error message of that format and leaves its
\* result and isConverting as they were; so no format ever holds a
\* successful result while the content is flagged as malicious
C20_MaliciousContentRefused ==
    /\ [](detectMaliciousContent(home.markdownContent) =>
             \A f \in Formats : ~HasSuccessfulResult(conversionState[f]))
    /\ [][(detectMaliciousContent(home.markdownContent) /\ IsConvertStep) =>
             /\ convertCalls' = << >>
             /\ \A f \in FormatsOf(panel'.last) :
                   /\ conversionState'[f].error = JsString(<<Err_Malicious>>)
                   /\ conversionState'[f].result = conversionState[f].result
                   /\ conversionState'[f].isConverting
                         = conversionState[f].isConverting]_vars

\* Convert was clicked for html on malicious content: html holds the
\* message and no result, and convert was not called
C20_Witness ==
    /\ detectMaliciousContent(home.markdownContent)
    /\ panel.last = [handler |-> "handleConvert", format |-> "html"]
    /\ conversionState["html"].error = JsString(<<Err_Malicious>>)
    /\ conversionState["html"].result = FreshConversionState["html"].result
    /\ ~conversionState["html"].isConverting
    /\ convertCalls = << >>

----------------------------------------------------------------------------
(* Claims about the result of FileConverter.convert *)

\* the extension and the MIME type of a format
ExtensionOf(format) ==
    CASE format = "html" -> <<".", "h", "t", "m", "l">>
      [] format = "json" -> <<".", "j", "s", "o", "n">>
      [] format = "txt" -> <<".", "t", "x", "t">>

MimeTypeOf(format) ==
    CASE format = "html" -> <<"text/html">>
      [] format = "json" -> <<"application/json">>
      [] format = "txt" -> <<"text/plain">>

\* convert has returned a successful result
ConvertSucceeded ==
    cvOut.kind = "return" /\ cvOut.value.success

\* C21: every successful ConversionResult has no error field, a filename
\* equal to the derived base filename followed by the extension of the
\* requested format, and the MIME type of that format
C21_SuccessfulResultFields ==
    ConvertSucceeded =>
        LET base == getBaseFilename(cvCall.options.originalFilename,
                                    cvCall.env.now)
        IN  /\ cvCall.format \in Formats
            /\ cvOut.value.error = JsUndefined
            /\ base.kind = "return"
            /\ cvOut.value.filename = base.value \o ExtensionOf(cvCall.format)
            /\ cvOut.value.mimeType = MimeTypeOf(cvCall.format)

\* a plain-text conversion of notes.md succeeded: notes.txt, text/plain
C21_Witness ==
    /\ ConvertSucceeded
    /\ cvCall.format = "txt"
    /\ cvCall.options.originalFilename = JsString(Name_notes)
    /\ cvOut.value.filename = <<"n", "o", "t", "e", "s", ".", "t", "x", "t">>
    /\ cvOut.value.mimeType = <<"text/plain">>

----------------------------------------------------------------------------
(* Claims about file names *)

\* [A-Za-z0-9._-]
IsSafeName(name) ==
    \A i \in DOMAIN name :
        name[i] \in Range(UpperCase) \cup Range(LowerCase) \cup Digits
                        \cup {".", "_", "-"}

\* converted_<timestamp>
IsConvertedName(name) ==
    LET prefix == <<"c", "o", "n", "v", "e", "r", "t", "e", "d", "_">>
    IN  /\ Len(name) > Len(prefix)
        /\ SubSeq(name, 1, Len(prefix)) = prefix
        /\ \A i \in (Len(prefix) + 1)..Len(name) : name[i] \in Digits

\* C22: the base filename derived by convert is never empty and holds only
\* characters in [A-Za-z0-9._-]: it is the sanitized original filename with
\* its last extension stripped, or converted_<timestamp> when no original
\* filename is supplied or when stripping and sanitizing leave nothing
C22_BaseFilename ==
    Returned("getBaseFilename") =>
        LET original == fnCall.arg.originalFilename
            sanitized == sanitizeFilename(StripExtension(original.str))
        IN  /\ fnRet.kind = "return"
            /\ fnRet.value # << >>
            /\ IsSafeName(fnRet.value)
            /\ IF original.kind = "string" /\ sanitized # << >>
               THEN fnRet.value = sanitized
               ELSE IsConvertedName(fnRet.value)

\* the original filename is only an extension: nothing is left of it and
\* the name is synthesized
C22_Witness ==
    /\ Returned("getBaseFilename")
    /\ fnCall.arg.originalFilename = JsString(<<".", "a">>)
    /\ fnCall.arg.t = 0
    /\ fnRet.value = <<"c", "o", "n", "v", "e", "r", "t", "e", "d", "_",
                       "0">>

\* C28: sanitizeFilename is idempotent: sanitizeFilename(sanitizeFilename(s))
\* equals sanitizeFilename(s) for every s, so the second sanitization that
\* downloadFile applies to an already sanitized name changes nothing
C28_SanitizeFilenameIdempotent ==
    Returned("sanitizeFilename") => sanitizeFilename(fnRet) = fnRet

\* C23: the name under which downloadFile saves a successful result still
\* ends with the extension of the format of the result, for every original
\* filename, base filenames at the 255-character limit included
C23_DownloadNameKeepsExtension ==
    (Returned("downloadFile") /\ fnRet.kind = "return") =>
        EndsWith(fnRet.download, ExtensionOf(fnCall.arg.format))

----------------------------------------------------------------------------
(* Claims about prettifyHTML *)

\* a tag ends and the next one starts on the same line, with nothing between
HasAdjacentTags(s) ==
    \E i \in 1..(Len(s) - 1) : s[i] = ">" /\ s[i + 1] = "<"

\* a line of s is empty, or starts or ends with whitespace
HasUntrimmedLine(s) ==
    /\ s # << >>
    /\ \/ s[1] \in Whitespace
       \/ s[Len(s)] \in Whitespace
       \/ \E i \in 1..(Len(s) - 1) :
             \/ s[i] = "\n" /\ s[i + 1] \in Whitespace
             \/ s[i] \in Whitespace /\ s[i + 1] = "\n"

\* C24: the result of prettifyHTML has a newline between every two adjacent
\* tags: it holds no '><', no blank line and no line with leading or
\* trailing whitespace, for every markup, markup in which two tags are
\* separated only by blank or whitespace-only lines included
C24_PrettifiedHasNoAdjacentTags ==
    Returned("prettifyHTML") =>
        /\ ~HasAdjacentTags(fnRet)
        /\ ~HasUntrimmedLine(fnRet)

\* what of C24 the code does keep: no blank line and no line with leading
\* or trailing whitespace
PrettifiedLinesAreTrimmed ==
    Returned("prettifyHTML") => ~HasUntrimmedLine(fnRet)

\* the first index from lo on at which p occurs in s, 0 if there is none
FirstOccurrence(s, p, lo) ==
    IF \E i \in lo..(Len(s) - Len(p) + 1) : OccursAt(s, p, i)
    THEN Least({i \in lo..(Len(s) - Len(p) + 1) : OccursAt(s, p, i)})
    ELSE 0

\* the text of the first code element of the markup: what stands between
\* the end of its opening tag and its closing tag
CodeTextOf(html) ==
    LET open == FirstOccurrence(html, <<"<", "c", "o", "d", "e">>, 1)
        from == FirstOccurrence(html, <<">">>, open) + 1
        to == FirstOccurrence(html, <<"<", "/", "c", "o", "d", "e", ">">>,
                              from)
    IN  SubSeq(html, from, to - 1)

\* C29: prettifying the HTML output changes only whitespace between tags:
\* the text inside a code block (pre > code), its leading indentation and
\* its blank lines included, is the same in convert(text, 'html',
\* {prettify: true}) as in the unprettified output
C29_PrettifyKeepsCodeText ==
    Returned("convert html") =>
        /\ fnRet[TRUE].success /\ fnRet[FALSE].success
        /\ CodeTextOf(fnRet[TRUE].content) = CodeTextOf(fnRet[FALSE].content)


----------------------------------------------------------------------------
(* Claims about download-all *)

\* the indices of the successful results, in input order
SuccessfulIndices(results) ==
    SelectSeq([i \in DOMAIN results |-> i], LAMBDA i : results[i].success)

\* C25: a failure downloading one file does not block the others:
\* downloadMultipleFiles throws when no result is successful, and otherwise
\* attempts downloadFile exactly once for each successful result, in input
\* order, even when an earlier download failed; failed results are never
\* downloaded
C25_EverySuccessfulResultAttempted ==
    Returned("downloadMultipleFiles") =>
        LET successful == SuccessfulIndices(fnCall.arg.results)
        IN  /\ successful = << >> => fnRet.kind = "reject"
            /\ fnRet.attempts = successful

----------------------------------------------------------------------------
(* The page under fair scheduling: a read that was started settles, time
   passes until a pending timeout is due, and a due timeout runs *)

\* time passes until the next timeout handed to setTimeout is due
TimeoutComesDue ==
    /\ \E timeout \in timers : timeout.due > now
    /\ now' = Least({timeout.due : timeout \in {c \in timers : c.due > now}})
    /\ UNCHANGED <<limiterVars, lastOp, convVars, fnVars, pageVars,
                   pageLogVars>>

\* a Convert button, the runtime raising an error inside convert or not
ClickConvertIn ==
    \E format \in Formats, fault \in PanelFaults :
        /\ home.markdownContent # << >>
        /\ Converted(handleConvertIn(conversionState, home.markdownContent,
                                     home.filename, format,
                                     [Browser(now) EXCEPT !.fault = fault]))

NextLive ==
    \/ TimeoutComesDue
    \/ SelectFile
    \/ FileRead
    \/ TimeoutFires
    \/ ClearContent
    \/ DismissError
    \/ ClickConvertIn
    \/ ClickConvertAll

\* FileReader delivers one of its events for every read (FileRead), timers
\* come due and the event loop runs the callbacks that are due
SpecLive ==
    /\ InitApp
    /\ [][NextLive]_vars
    /\ WF_vars(FileRead)
    /\ WF_vars(TimeoutComesDue)
    /\ WF_vars(TimeoutFires)

----------------------------------------------------------------------------
(* Claims about FileUpload and the busy flags *)

\* handleFileSelection starts for a file
IsSelectionStep == uploads' = uploads + 1

\* the readFile that handleFileSelection awaits settles
IsReadSettledStep ==
    fileUpload.reading.kind = "file" /\ fileUpload'.reading.kind # "file"

\* C26: for each file selection, handleFileSelection calls exactly one of
\* onFileRead and onError, exactly once; onFileRead is called only with
\* content that is not empty or whitespace-only and that comes from a file
\* that passed validateFile; an empty or whitespace-only file is rejected
\* before the parser is ever run on it
C26_OneCallbackPerSelection ==
    /\ [][IsSelectionStep =>
             IF fileUpload'.reading.kind = "file"
             THEN callbacks' = << >>
             ELSE /\ Len(callbacks') = 1
                  /\ callbacks'[1].prop = "onError"
                  /\ home'.error = callbacks'[1].message]_vars
    /\ [][IsReadSettledStep =>
             /\ Len(callbacks') = 1
             /\ callbacks'[1].prop \in {"onError", "onFileRead"}
             /\ callbacks'[1].file = fileUpload.reading
             /\ callbacks'[1].prop = "onError"
                   => home'.error = callbacks'[1].message]_vars
    /\ [][(~IsSelectionStep /\ ~IsReadSettledStep)
             => callbacks' \in {<< >>, callbacks}]_vars
    /\ [](\A i \in DOMAIN callbacks :
             callbacks[i].prop = "onFileRead" =>
                 /\ \E j \in DOMAIN callbacks[i].content :
                        callbacks[i].content[j] \notin Whitespace
                 /\ callbacks[i].content = callbacks[i].file.text
                 /\ callbacks[i].filename = callbacks[i].file.name
                 /\ validateFile(callbacks[i].file).isValid)
    /\ [](\A i \in DOMAIN parseCalls :
             \E j \in DOMAIN parseCalls[i].content :
                 parseCalls[i].content[j] \notin Whitespace)

\* the whitespace-only file was read and refused with onError
C26_Witness ==
    /\ Len(callbacks) = 1
    /\ callbacks[1].prop = "onError"
    /\ callbacks[1].file = File_blank
    /\ callbacks[1].message = "File appears to be empty"
    /\ home.error = "File appears to be empty"
    /\ home.markdownContent = << >>
    /\ timers = {}

\* a callback handed to setTimeout by handleFileRead runs
IsTimeoutStep == timers' # timers /\ timers' \subseteq timers

\* C27: no busy flag stays set forever: a handleConvert that set
\* isConverting has set it back to false when it returns (after a success
\* and after a failed result), handleFileSelection leaves
\* FileUpload.isProcessing false when it completes on every path, and the
\* isProcessing of the page set by an admitted handleFileRead is cleared
\* when its timer fires
C27_NoBusyFlagStaysSet ==
    /\ [](\A f \in Formats : ~conversionState[f].isConverting)
    /\ [][(IsSelectionStep /\ fileUpload'.reading.kind # "file")
             => ~fileUpload'.isProcessing]_vars
    /\ [][IsReadSettledStep => ~fileUpload'.isProcessing]_vars
    /\ [][IsTimeoutStep => ~home'.isProcessing]_vars
    /\ (fileUpload.isProcessing ~> ~fileUpload.isProcessing)
    /\ (home.isProcessing ~> ~home.isProcessing)

\* the timer of an admitted upload has fired and a conversion of its
\* content has failed: no flag is set
C27_Witness ==
    /\ home.markdownContent # << >>
    /\ ~home.isProcessing
    /\ ~fileUpload.isProcessing
    /\ timers = {}
    /\ conversionState["html"].result.kind = "result"
    /\ ~conversionState["html"].result.value.success
    /\ ~conversionState["html"].isConverting

=============================================================================
